---- MODULE Spec2Model ----
(***************************************************************************)
(* Model of the cache / filter / view / display subsystem of argus.        *)
(*                                                                         *)
(* Python strings are sequences of one-character strings, so that the      *)
(* substring test of the `in` operator and the split on a delimiter are    *)
(* computed, not assumed.  A dict is a function; a dict whose insertion    *)
(* order is observable (JiraView._jira_filters) is a sequence.             *)
(*                                                                         *)
(* The specifications of the module:                                       *)
(*   SpecView    - JiraFilter / JiraView over the cache of one connection  *)
(*   SpecRender  - DisplayFilter walking dependency chains                 *)
(*   SpecResolve - JiraManager resolving link strings and saving projects  *)
(*   SpecOpen    - JiraIssue.is_open / is_closed                           *)
(*   SpecProjects - JiraConnection caching and linking projects            *)
(*   SpecTasker  - MultiTasker.run and its worker threads                  *)
(*   SpecHealth  - JenkinsJob._get_job_health                              *)
(*   SpecManager - JiraManager start-up, new projects, refresh, display    *)
(*   SpecRefresh - JiraProject.refresh and its high-water mark             *)
(*   SpecFlags   - DisplayFilter under every combination of display flags  *)
(*   SpecTaskerFair - SpecTasker under a fair thread scheduler             *)
(***************************************************************************)
EXTENDS Integers, Sequences, FiniteSets, TLC

VARIABLES
    \* ---- JiraConnection / JiraProject / JiraView --------------------------------
    cached_jira_projects,   \* JiraConnection._cached_jira_projects: name -> JiraProject
    jira_filters,           \* JiraView._jira_filters, in insertion order
    view_pc,                \* "edit" while view and cache are built, then "returned" (get_issues) or "filtered"
    string_matches,         \* the argument of the last get_issues call
    matching_issues,        \* the keys of the dict returned by the last get_issues call
    filtered_issues,        \* the last get_matching_jira_issues call: [filter, keys]
    \* ---- JiraIssue objects and DisplayFilter --------------------------------------
    heap,                   \* the JiraIssue objects in memory: object id -> JiraIssue
    utils_flags,            \* utils.show_dependencies, utils.show_only_open_dependencies
    display_filter,         \* the DisplayFilter: open_only, suppress_dependencies, _max_depth,
                            \*   _current_index, _current_depth, _seen_keys
    render_pc,              \* "idle" before display_and_return_sorted_issues, "displayed" after
    render_args,            \* the arguments of the call: issues, start_idx, filters, force_show_dependencies
    result,                 \* the rows of the text block handed to the pager, in emission order
    displayed_issues,       \* the list the call returned (object ids)
    unknown_dependencies,   \* JiraDependency.unknown_dependencies
    \* ---- JiraManager: connections, projects, resolution, persistence -------------
    jira_connections,       \* JiraManager._jira_connections, in insertion order; each holds
                            \*   _cached_jira_projects: name -> JiraProject (jira_issues as object ids)
    missing_project_counts, \* JiraManager.missing_project_counts: project name -> count
    persisted,              \* the data file of each project: name -> the records pickled into it
    passes,                 \* how many times _resolve_issue_dependencies has run
    first_pass,             \* the dependency triples of every object right after the first pass
    loaded_links,           \* the 'issuelinks' item every cached object was constructed with
    last_call,              \* what the last JiraManager operation was and how it ended
    \* ---- utils.MultiTasker ---------------------------------------------------------
    tasker,                 \* running_count, max_threads, the threads, and where run() is
    \* ---- JenkinsJob ----------------------------------------------------------------
    jenkins_job,            \* the arguments of the last _get_job_health call and what it returned
    \* ---- JiraManager.__init__ and the main menu ---------------------------------------
    manager_pc,             \* "loading" while __init__ walks the project files, then "ready"
    project_files,          \* the project files __init__ has still to load
    resolved                \* the objects the last complete resolution pass visited

viewVars == <<cached_jira_projects, jira_filters, view_pc, string_matches,
              matching_issues, filtered_issues>>

renderVars == <<heap, utils_flags, display_filter, render_pc, render_args,
                result, displayed_issues, unknown_dependencies>>

managerVars == <<jira_connections, missing_project_counts, persisted, passes,
                 first_pass, loaded_links, last_call>>

jenkinsVars == <<jenkins_job>>

lifecycleVars == <<manager_pc, project_files, resolved>>

vars == <<viewVars, renderVars, managerVars, tasker, jenkinsVars, lifecycleVars>>

-----------------------------------------------------------------------------
(* Bounds *)

MaxFilterValues == 2    \* include + exclude entries over all filters of the view
MaxStringMatches == 1   \* length of the string_matches argument of get_issues
MaxLinks == 3           \* dependencies over all JiraIssue objects of the heap
MaxCeiling == 2         \* largest DisplayFilter._max_depth tried

-----------------------------------------------------------------------------
(* Strings *)

\* Python `s in t` on two strings
IsSubstr(s, t) ==
    \E i \in 0..(Len(t) - Len(s)) : SubSeq(t, i + 1, i + Len(s)) = s

\* index of the first occurrence of character c in s, or 0
FirstIndex(s, c) ==
    IF \E i \in 1..Len(s) : s[i] = c
    THEN CHOOSE i \in 1..Len(s) : s[i] = c /\ \A j \in 1..(i - 1) : s[j] # c
    ELSE 0

\* Python s.split(c)[0]
SplitHead(s, c) ==
    IF FirstIndex(s, c) = 0 THEN s ELSE SubSeq(s, 1, FirstIndex(s, c) - 1)

Range(f) == {f[x] : x \in DOMAIN f}

-----------------------------------------------------------------------------
(* The universe the inputs are drawn from *)

ProjectNames == {<<"P">>, <<"Q">>}

\* the issue keys a tracker query for PROJECT = name can return
KeysOf(project_name) == {project_name \o <<"-", "1">>}

\* logical field names a JiraFilter is written against
FilterFields == {"assignee", "reviewer"}

\* field values of cached issues, and the values a filter can list
FieldValues == {<<"a">>, <<"b">>, <<"a", "b">>}
FilterValues == {<<"a">>, <<"b">>}

\* storage keys an issue of the project can carry
StorageFields(project_name) ==
    IF project_name = <<"P">> THEN {"assignee", "cf1"} ELSE {"assignee", "reviewer"}

\* JiraProject._custom_fields of each cached project: logical name -> storage key
CustomFieldsOf(project_name) ==
    IF project_name = <<"P">> THEN [f \in {"reviewer"} |-> "cf1"] ELSE << >>

\* a JiraIssue as a dict: issue_key plus the field -> str mapping
IssuesOf(project_name) ==
    UNION {[issue_key : KeysOf(project_name), fields : [S -> FieldValues]]
             : S \in SUBSET StorageFields(project_name)}

-----------------------------------------------------------------------------
(* JiraIssue *)

get_project_from_ticket(ticket_name) == SplitHead(ticket_name, "-")

project_name(jira_issue) == get_project_from_ticket(jira_issue.issue_key)

\* JiraIssue.matches: the key, then every value
matches(jira_issue, find) ==
    \/ IsSubstr(find, jira_issue.issue_key)
    \/ \E value \in Range(jira_issue.fields) : IsSubstr(find, value)

\* JiraIssue.matches_any: an empty list matches everything
matches_any(jira_issue, to_match) ==
    IF Len(to_match) = 0 THEN TRUE
    ELSE \E k \in 1..Len(to_match) : matches(jira_issue, to_match[k])

-----------------------------------------------------------------------------
(* JiraProject / JiraConnection *)

translate_custom_field(jira_project, field_name) ==
    IF field_name \notin DOMAIN jira_project._custom_fields
    THEN field_name
    ELSE jira_project._custom_fields[field_name]

\* JiraConnection.cached_jira_issues, flattened
cached_jira_issues ==
    UNION {Range(cached_jira_projects[p].jira_issues) : p \in DOMAIN cached_jira_projects}

-----------------------------------------------------------------------------
(* JiraFilter *)

\* The key _internal_match looks up in the issue; 'None' when the issue's
\* project is not cached on the connection.
_translate_field(jira_filter, jira_issue) ==
    IF project_name(jira_issue) \notin DOMAIN cached_jira_projects
    THEN "None"
    ELSE translate_custom_field(cached_jira_projects[project_name(jira_issue)],
                                jira_filter.field)

_internal_match_empty_vacuous(jira_filter, jira_issue, to_match) ==
    LET translated == _translate_field(jira_filter, jira_issue)
        present == translated \in DOMAIN jira_issue.fields
        matches_one == present /\ \E k \in 1..Len(to_match) :
                           IsSubstr(to_match[k], jira_issue.fields[translated])
        matches_all == present => \A k \in 1..Len(to_match) :
                           IsSubstr(to_match[k], jira_issue.fields[translated])
    IN  IF jira_filter.query_type = "OR" THEN matches_one ELSE matches_all

_internal_match_or_all(jira_filter, jira_issue, to_match) ==
    IF Len(to_match) = 0 THEN FALSE
    ELSE LET translated == _translate_field(jira_filter, jira_issue)
             present == translated \in DOMAIN jira_issue.fields
         IN  present => \A k \in 1..Len(to_match) :
                            IsSubstr(to_match[k], jira_issue.fields[translated])

_internal_match_absent_false(jira_filter, jira_issue, to_match) ==
    IF Len(to_match) = 0 THEN FALSE
    ELSE LET translated == _translate_field(jira_filter, jira_issue)
             present == translated \in DOMAIN jira_issue.fields
             matches_one == present /\ \E k \in 1..Len(to_match) :
                                IsSubstr(to_match[k], jira_issue.fields[translated])
             matches_all == present /\ \A k \in 1..Len(to_match) :
                                IsSubstr(to_match[k], jira_issue.fields[translated])
         IN  IF jira_filter.query_type = "OR" THEN matches_one ELSE matches_all

_internal_match(jira_filter, jira_issue, to_match) ==
    IF Len(to_match) = 0 THEN FALSE
    ELSE LET translated == _translate_field(jira_filter, jira_issue)
             present == translated \in DOMAIN jira_issue.fields
             matches_one == present /\ \E k \in 1..Len(to_match) :
                                IsSubstr(to_match[k], jira_issue.fields[translated])
             matches_all == present => \A k \in 1..Len(to_match) :
                                IsSubstr(to_match[k], jira_issue.fields[translated])
         IN  IF jira_filter.query_type = "OR" THEN matches_one ELSE matches_all

includes_jira_issue(jira_filter, jira_issue) ==
    _internal_match(jira_filter, jira_issue, jira_filter.includes)

excludes_jira_issue(jira_filter, jira_issue) ==
    _internal_match(jira_filter, jira_issue, jira_filter.excludes)

matches_jira_issue(jira_filter, jira_issue) ==
    includes_jira_issue(jira_filter, jira_issue) /\ ~excludes_jira_issue(jira_filter, jira_issue)

\* JiraFilter.include / exclude: 'unresolved' on the resolution field is stored as 'None'
Unresolved == <<"u", "n", "r", "e", "s", "o", "l", "v", "e", "d">>
NoneStr == <<"N", "o", "n", "e">>

\* str.lower over the alphabet of the model
Lower(s) == [k \in 1..Len(s) |-> IF s[k] = "U" THEN "u" ELSE s[k]]

include(jira_filter, value) ==
    [jira_filter EXCEPT !.includes =
        Append(@, IF jira_filter.field = "resolution" /\ Lower(value) = Unresolved
                  THEN NoneStr ELSE value)]

exclude(jira_filter, value) ==
    [jira_filter EXCEPT !.excludes =
        Append(@, IF jira_filter.field = "resolution" /\ value = Unresolved
                  THEN NoneStr ELSE value)]

-----------------------------------------------------------------------------
(* JiraView *)

FilterIndex(field) ==
    IF \E k \in 1..Len(jira_filters) : jira_filters[k].field = field
    THEN CHOOSE k \in 1..Len(jira_filters) : jira_filters[k].field = field
    ELSE 0

ViewValueCount ==
    LET RECURSIVE Sum(_)
        Sum(k) == IF k = 0 THEN 0
                  ELSE Len(jira_filters[k].includes) + Len(jira_filters[k].excludes) + Sum(k - 1)
    IN  Sum(Len(jira_filters))

\* One pass through the body of the loop over the filters in get_issues.
\* st holds the locals matched, excluded, has_or, matched_or; brk says the body hit a break.
FilterStep_and_continue(jira_filter, jira_issue, to_match, st) ==
    LET s1 == [st EXCEPT !.has_or = @ \/ jira_filter.query_type = "OR"]
    IN  IF ~matches_any(jira_issue, to_match) THEN [s1 EXCEPT !.brk = TRUE]
        ELSE IF includes_jira_issue(jira_filter, jira_issue)
        THEN [s1 EXCEPT !.matched = TRUE,
                        !.matched_or = @ \/ jira_filter.query_type = "OR"]
        ELSE IF excludes_jira_issue(jira_filter, jira_issue)
        THEN [s1 EXCEPT !.matched = TRUE, !.excluded = TRUE, !.brk = TRUE]
        ELSE s1

FilterStep_break_on_match(jira_filter, jira_issue, to_match, st) ==
    LET s1 == [st EXCEPT !.has_or = @ \/ jira_filter.query_type = "OR"]
    IN  IF ~matches_any(jira_issue, to_match) THEN [s1 EXCEPT !.brk = TRUE]
        ELSE IF includes_jira_issue(jira_filter, jira_issue)
        THEN [s1 EXCEPT !.matched = TRUE,
                        !.matched_or = @ \/ jira_filter.query_type = "OR",
                        !.brk = TRUE]
        ELSE IF excludes_jira_issue(jira_filter, jira_issue)
        THEN [s1 EXCEPT !.matched = TRUE, !.excluded = TRUE, !.brk = TRUE]
        ELSE IF jira_filter.query_type = "AND"
        THEN [s1 EXCEPT !.excluded = TRUE, !.brk = TRUE]
        ELSE s1

FilterStep(jira_filter, jira_issue, to_match, st) ==
    LET s1 == [st EXCEPT !.has_or = @ \/ jira_filter.query_type = "OR"]
    IN  IF ~matches_any(jira_issue, to_match) THEN [s1 EXCEPT !.brk = TRUE]
        ELSE IF includes_jira_issue(jira_filter, jira_issue)
        THEN [s1 EXCEPT !.matched = TRUE,
                        !.matched_or = @ \/ jira_filter.query_type = "OR"]
        ELSE IF excludes_jira_issue(jira_filter, jira_issue)
        THEN [s1 EXCEPT !.matched = TRUE, !.excluded = TRUE, !.brk = TRUE]
        ELSE IF jira_filter.query_type = "AND"
        THEN [s1 EXCEPT !.excluded = TRUE, !.brk = TRUE]
        ELSE s1

\* The loop over list(self._jira_filters.values()) for one issue, from filter k on
RECURSIVE FilterLoop(_, _, _, _, _)
FilterLoop(filters, jira_issue, to_match, k, st) ==
    IF k > Len(filters) \/ st.brk THEN st
    ELSE FilterLoop(filters, jira_issue, to_match, k + 1,
                    FilterStep(filters[k], jira_issue, to_match, st))

LoopStart ==
    [matched |-> FALSE, excluded |-> FALSE, has_or |-> FALSE, matched_or |-> FALSE, brk |-> FALSE]

Retained_unmatched_kept(filters, jira_issue, to_match) ==
    LET st == FilterLoop(filters, jira_issue, to_match, 1, LoopStart)
    IN  ~st.excluded /\ ~(st.has_or /\ ~st.matched_or)

Retained_ignore_or(filters, jira_issue, to_match) ==
    LET st == FilterLoop(filters, jira_issue, to_match, 1, LoopStart)
    IN  ~st.excluded /\ st.matched


\* whether get_issues puts the issue into matching_issues
Retained(filters, jira_issue, to_match) ==
    LET st == FilterLoop(filters, jira_issue, to_match, 1, LoopStart)
    IN  /\ ~st.excluded
        /\ ~(st.has_or /\ ~st.matched_or)
        /\ st.matched

get_issues_result(filters, to_match) ==
    {jira_issue.issue_key : jira_issue \in
        {i \in cached_jira_issues : Retained(filters, i, to_match)}}

\* JiraProject.get_filtered_issues over every cached project
get_matching_jira_issues_result(jira_filter) ==
    {jira_issue.issue_key : jira_issue \in
        {i \in cached_jira_issues :
            includes_jira_issue(jira_filter, i) /\ ~excludes_jira_issue(jira_filter, i)}}

-----------------------------------------------------------------------------
(* DisplayFilter state as the class defines it, with nothing to display *)

DisplayFilterDefault ==
    [open_only |-> FALSE, suppress_dependencies |-> FALSE, _max_depth |-> 5,
     _current_index |-> 0, _current_depth |-> 0, _seen_keys |-> {}]

RenderIdle ==
    /\ heap = << >>
    /\ utils_flags = [show_dependencies |-> FALSE, show_only_open_dependencies |-> TRUE]
    /\ display_filter = DisplayFilterDefault
    /\ render_pc = "idle"
    /\ render_args = [issues |-> << >>, start_idx |-> 1, filters |-> << >>,
                      force_show_dependencies |-> FALSE]
    /\ result = << >>
    /\ displayed_issues = << >>
    /\ unknown_dependencies = {}

\* no MultiTasker at work
TaskerIdle ==
    [running_count |-> 0, max_threads |-> 5, threads |-> << >>,
     launcher |-> "returned", k |-> 1]

\* no JenkinsJob constructed
JenkinsIdle ==
    jenkins_job = [failed_builds |-> 0, builds_checked |-> 0, health |-> "not computed"]

\* a JiraManager whose __init__ found no project file
LifecycleIdle ==
    /\ manager_pc = "ready"
    /\ project_files = << >>
    /\ resolved = {}

\* JiraManager.__init__ before any connection is added
ManagerIdle ==
    /\ jira_connections = << >>
    /\ missing_project_counts = << >>
    /\ persisted = << >>
    /\ passes = 0
    /\ first_pass = << >>
    /\ loaded_links = << >>
    /\ last_call = [op |-> "none", outcome |-> "none"]

-----------------------------------------------------------------------------
(* Actions of SpecView *)

\* JiraProject.add_issue
add_issue(p, jira_issue) ==
    /\ view_pc = "edit"
    /\ p \in DOMAIN cached_jira_projects
    /\ cached_jira_projects' =
         [cached_jira_projects EXCEPT ![p].jira_issues =
             [k \in DOMAIN @ \cup {jira_issue.issue_key} |->
                 IF k = jira_issue.issue_key THEN jira_issue ELSE @[k]]]
    /\ UNCHANGED <<jira_filters, view_pc, string_matches, matching_issues, filtered_issues>>
    /\ UNCHANGED renderVars
    /\ UNCHANGED managerVars
    /\ UNCHANGED tasker
    /\ UNCHANGED lifecycleVars
    /\ UNCHANGED jenkinsVars

\* JiraView.add_single_filter
add_single_filter(field, value, filter_type, and_or) ==
    /\ view_pc = "edit"
    /\ ViewValueCount < MaxFilterValues
    /\ LET with_filter ==
               IF FilterIndex(field) = 0
               THEN Append(jira_filters, [field |-> field, query_type |-> and_or,
                                          includes |-> << >>, excludes |-> << >>])
               ELSE jira_filters
           k == IF FilterIndex(field) = 0 THEN Len(with_filter) ELSE FilterIndex(field)
       IN  jira_filters' =
             [with_filter EXCEPT ![k] =
                 IF filter_type = "i" THEN include(@, value) ELSE exclude(@, value)]
    /\ UNCHANGED <<cached_jira_projects, view_pc, string_matches, matching_issues, filtered_issues>>
    /\ UNCHANGED renderVars
    /\ UNCHANGED managerVars
    /\ UNCHANGED tasker
    /\ UNCHANGED lifecycleVars
    /\ UNCHANGED jenkinsVars

\* JiraView.get_issues
get_issues(to_match) ==
    /\ view_pc = "edit"
    /\ string_matches' = to_match
    /\ matching_issues' = get_issues_result(jira_filters, to_match)
    /\ view_pc' = "returned"
    /\ UNCHANGED <<cached_jira_projects, jira_filters, filtered_issues>>
    /\ UNCHANGED renderVars
    /\ UNCHANGED managerVars
    /\ UNCHANGED tasker
    /\ UNCHANGED lifecycleVars
    /\ UNCHANGED jenkinsVars

\* JiraConnection.get_matching_jira_issues
get_matching_jira_issues(k) ==
    /\ view_pc = "edit"
    /\ k \in 1..Len(jira_filters)
    /\ filtered_issues' = [filter |-> k,
                           keys |-> get_matching_jira_issues_result(jira_filters[k])]
    /\ view_pc' = "filtered"
    /\ UNCHANGED <<cached_jira_projects, jira_filters, string_matches, matching_issues>>
    /\ UNCHANGED renderVars
    /\ UNCHANGED managerVars
    /\ UNCHANGED tasker
    /\ UNCHANGED lifecycleVars
    /\ UNCHANGED jenkinsVars

StringMatchArgs ==
    UNION {[1..n -> {<<"a">>}] : n \in 0..MaxStringMatches}

InitView ==
    /\ tasker = TaskerIdle
    /\ LifecycleIdle
    /\ JenkinsIdle
    /\ cached_jira_projects =
         [p \in ProjectNames |->
             [project_name |-> p, _custom_fields |-> CustomFieldsOf(p), jira_issues |-> << >>]]
    /\ jira_filters = << >>
    /\ view_pc = "edit"
    /\ string_matches = << >>
    /\ matching_issues = {}
    /\ filtered_issues = [filter |-> 0, keys |-> {}]
    /\ RenderIdle
    /\ ManagerIdle

NextView ==
    \/ \E p \in ProjectNames : \E i \in IssuesOf(p) : add_issue(p, i)
    \/ \E field \in FilterFields, value \in FilterValues,
          filter_type \in {"i", "e"}, and_or \in {"AND", "OR"} :
            add_single_filter(field, value, filter_type, and_or)
    \/ \E to_match \in StringMatchArgs : get_issues(to_match)
    \/ \E k \in 1..2 : get_matching_jira_issues(k)

SpecView == InitView /\ [][NextView]_vars

-----------------------------------------------------------------------------
(* JiraDependency *)

\* Python None among strings: a one-element sequence that is no character
PyNone == <<"<None>">>

\* str(v) for a value that is a string or None
Str(v) == IF v = PyNone THEN <<"N", "o", "n", "e">> ELSE v

\* s[:n]
Truncate(s, n) == IF Len(s) <= n THEN s ELSE SubSeq(s, 1, n)

\* JiraDependency.dep_map: '<type>:<direction>' -> phrase
dep_map ==
    <<"A", "u", "t", "o", "m", "a", "t", "e", "d", " ", "B", "y", ":", "i", "n", "w", "a", "r", "d">> :> <<"a", "u", "t", "o", "m", "a", "t", "e", "s">> @@
    <<"A", "u", "t", "o", "m", "a", "t", "e", "d", " ", "B", "y", ":", "o", "u", "t", "w", "a", "r", "d">> :> <<"a", "u", "t", "o", "m", "a", "t", "e", "d", " ", "b", "y">> @@
    <<"B", "l", "o", "c", "k", "e", "d", ":", "i", "n", "w", "a", "r", "d">> :> <<"b", "l", "o", "c", "k", "s">> @@
    <<"B", "l", "o", "c", "k", "e", "d", ":", "o", "u", "t", "w", "a", "r", "d">> :> <<"b", "l", "o", "c", "k", "e", "d", " ", "b", "y">> @@
    <<"B", "l", "o", "c", "k", "e", "r", ":", "i", "n", "w", "a", "r", "d">> :> <<"b", "l", "o", "c", "k", "s">> @@
    <<"B", "l", "o", "c", "k", "e", "r", ":", "o", "u", "t", "w", "a", "r", "d">> :> <<"b", "l", "o", "c", "k", "e", "d", " ", "b", "y">> @@
    <<"B", "o", "n", "f", "i", "r", "e", " ", "T", "e", "s", "t", "i", "n", "g", ":", "i", "n", "w", "a", "r", "d">> :> <<>> @@
    <<"B", "o", "n", "f", "i", "r", "e", " ", "T", "e", "s", "t", "i", "n", "g", ":", "o", "u", "t", "w", "a", "r", "d">> :> <<>> @@
    <<"C", "l", "o", "n", "e", "r", "s", ":", "i", "n", "w", "a", "r", "d">> :> <<>> @@
    <<"C", "l", "o", "n", "e", "r", "s", ":", "o", "u", "t", "w", "a", "r", "d">> :> <<>> @@
    <<"C", "o", "n", "t", "a", "i", "n", "e", "r", ":", "i", "n", "w", "a", "r", "d">> :> <<"c", "o", "n", "t", "a", "i", "n", "e", "d", " ", "b", "y">> @@
    <<"C", "o", "n", "t", "a", "i", "n", "e", "r", ":", "o", "u", "t", "w", "a", "r", "d">> :> <<"c", "o", "n", "t", "a", "i", "n", "s">> @@
    <<"D", "e", "p", "e", "n", "d", "e", "n", "c", "y", ":", "i", "n", "w", "a", "r", "d">> :> <<"d", "e", "p", "e", "n", "d", "e", "d", " ", "o", "n", " ", "b", "y">> @@
    <<"D", "e", "p", "e", "n", "d", "e", "n", "c", "y", ":", "o", "u", "t", "w", "a", "r", "d">> :> <<"d", "e", "p", "e", "n", "d", "s", " ", "o", "n">> @@
    <<"D", "e", "p", "e", "n", "d", "e", "n", "t", ":", "i", "n", "w", "a", "r", "d">> :> <<"d", "e", "p", "e", "n", "d", "s", " ", "o", "n">> @@
    <<"D", "e", "p", "e", "n", "d", "e", "n", "t", ":", "o", "u", "t", "w", "a", "r", "d">> :> <<"d", "e", "p", "e", "n", "d", "e", "d", " ", "o", "n", " ", "b", "y">> @@
    <<"D", "u", "p", "l", "i", "c", "a", "t", "e", ":", "i", "n", "w", "a", "r", "d">> :> <<"d", "u", "p", "l", "i", "c", "a", "t", "e", "s">> @@
    <<"D", "u", "p", "l", "i", "c", "a", "t", "e", ":", "o", "u", "t", "w", "a", "r", "d">> :> <<"d", "u", "p", "l", "i", "c", "a", "t", "e", "d", " ", "b", "y">> @@
    <<"I", "n", "c", "l", "u", "d", "e", "s", ":", "i", "n", "w", "a", "r", "d">> :> <<"i", "n", "c", "l", "u", "d", "e", "d", " ", "b", "y">> @@
    <<"I", "n", "c", "l", "u", "d", "e", "s", ":", "o", "u", "t", "w", "a", "r", "d">> :> <<"i", "n", "c", "l", "u", "d", "e", "s">> @@
    <<"I", "n", "c", "o", "r", "p", "o", "r", "a", "t", "e", "s", ":", "i", "n", "w", "a", "r", "d">> :> <<"i", "n", "c", "o", "r", "p", "o", "r", "a", "t", "e", "d", " ", "b", "y">> @@
    <<"I", "n", "c", "o", "r", "p", "o", "r", "a", "t", "e", "s", ":", "o", "u", "t", "w", "a", "r", "d">> :> <<"i", "n", "c", "o", "r", "p", "o", "r", "a", "t", "e", "s">> @@
    <<"P", "a", "r", "e", "n", "t", "/", "C", "h", "i", "l", "d", ":", "i", "n", "w", "a", "r", "d">> :> <<"c", "h", "i", "l", "d", " ", "o", "f">> @@
    <<"P", "a", "r", "e", "n", "t", "/", "C", "h", "i", "l", "d", ":", "o", "u", "t", "w", "a", "r", "d">> :> <<"p", "a", "r", "e", "n", "t", " ", "o", "f">> @@
    <<"R", "e", "f", "e", "r", "e", "n", "c", "e", ":", "i", "n", "w", "a", "r", "d">> :> <<"r", "e", "f", "e", "r", "e", "n", "c", "e", "d", " ", "b", "y">> @@
    <<"R", "e", "f", "e", "r", "e", "n", "c", "e", ":", "o", "u", "t", "w", "a", "r", "d">> :> <<"r", "e", "f", "e", "r", "e", "n", "c", "e", "s">> @@
    <<"R", "e", "g", "r", "e", "s", "s", "i", "o", "n", ":", "i", "n", "w", "a", "r", "d">> :> <<"r", "e", "g", "r", "e", "s", "s", "i", "o", "n", " ", "o", "f">> @@
    <<"R", "e", "g", "r", "e", "s", "s", "i", "o", "n", ":", "o", "u", "t", "w", "a", "r", "d">> :> <<"r", "e", "g", "r", "e", "s", "s", "e", "d", " ", "b", "y">> @@
    <<"R", "e", "l", "a", "t", "e", "d", " ", "I", "s", "s", "u", "e", ":", "i", "n", "w", "a", "r", "d">> :> <<"r", "e", "l", "a", "t", "e", "s", " ", "t", "o">> @@
    <<"R", "e", "l", "a", "t", "e", "d", " ", "I", "s", "s", "u", "e", ":", "o", "u", "t", "w", "a", "r", "d">> :> <<"r", "e", "l", "a", "t", "e", "s", " ", "t", "o">> @@
    <<"R", "e", "q", "u", "i", "r", "e", "d", ":", "i", "n", "w", "a", "r", "d">> :> <<"r", "e", "q", "u", "i", "r", "e", "d", " ", "b", "y">> @@
    <<"R", "e", "q", "u", "i", "r", "e", "d", ":", "o", "u", "t", "w", "a", "r", "d">> :> <<"r", "e", "q", "u", "i", "r", "e", "s">> @@
    <<"S", "u", "p", "e", "r", "c", "e", "d", "e", "s", ":", "i", "n", "w", "a", "r", "d">> :> <<"s", "u", "p", "e", "r", "c", "e", "d", "e", "d", " ", "b", "y">> @@
    <<"S", "u", "p", "e", "r", "c", "e", "d", "e", "s", ":", "o", "u", "t", "w", "a", "r", "d">> :> <<"s", "u", "p", "e", "r", "c", "e", "d", "e", "s">> @@
    <<"d", "e", "p", "e", "n", "d", "e", "n", "t", ":", "i", "n", "w", "a", "r", "d">> :> <<"d", "e", "p", "e", "n", "d", "e", "d", " ", "o", "n", " ", "b", "y">> @@
    <<"d", "e", "p", "e", "n", "d", "e", "n", "t", ":", "o", "u", "t", "w", "a", "r", "d">> :> <<"d", "e", "p", "e", "n", "d", "s", " ", "o", "n">> @@
    <<"P", "r", "o", "b", "l", "e", "m", "/", "I", "n", "c", "i", "d", "e", "n", "t", ":", "i", "n", "w", "a", "r", "d">> :> <<>> @@
    <<"P", "r", "o", "b", "l", "e", "m", "/", "I", "n", "c", "i", "d", "e", "n", "t", ":", "o", "u", "t", "w", "a", "r", "d">> :> <<>>

\* JiraDependency.pretty_type: the phrase, or None for a pair that is not in dep_map
pretty_type_key(dependency) == dependency.type \o <<":">> \o dependency.direction

pretty_type(dependency) ==
    IF pretty_type_key(dependency) \notin DOMAIN dep_map
    THEN PyNone
    ELSE dep_map[pretty_type_key(dependency)]

\* the dependency argument of _format_jira_issue for a top-level issue (None)
NoDependency == [target |-> 0, type |-> << >>, direction |-> << >>]

-----------------------------------------------------------------------------
(* JiraIssue objects *)

is_open_empty_too(jira_issue) ==
    \/ jira_issue.fields["resolution"] = PyNone
    \/ jira_issue.fields["resolution"] = << >>
    \/ jira_issue.fields["resolution"] = <<"N", "o", "n", "e">>
    \/ jira_issue.fields["resolution"] = <<"U", "n", "r", "e", "s", "o", "l", "v", "e", "d">>

is_open(jira_issue) ==
    \/ jira_issue.fields["resolution"] = PyNone
    \/ jira_issue.fields["resolution"] = <<"N", "o", "n", "e">>
    \/ jira_issue.fields["resolution"] = <<"U", "n", "r", "e", "s", "o", "l", "v", "e", "d">>

is_closed(jira_issue) == ~is_open(jira_issue)

\* JiraIssue.non_cached_issue
non_cached_issue(issue_key) ==
    [issue_key |-> issue_key,
     fields |-> [relationship |-> <<"M", "I", "S", "S", "I", "N", "G", " ", "C", "H", "A", "I", "N">>,
                 summary |-> <<"B", "R", "E", "A", "K", " ", "I", "N", " ", "C", "H", "A", "I", "N", ".", " ", "C", "a", "c", "h", "e", " ", "o", "f", "f", "l", "i", "n", "e", " ", "t", "o", " ", "s", "e", "e", " ", "d", "e", "p", "s", ".">>,
                 resolution |-> PyNone],
     is_cached_offline |-> FALSE,
     dependencies |-> << >>]

\* JiraUtils.retrieve_field_value
retrieve_field_value(jira_issue, field) ==
    IF field \notin DOMAIN jira_issue.fields THEN << >> ELSE jira_issue.fields[field]

-----------------------------------------------------------------------------
(* DisplayFilter *)

\* DisplayFilter.included_columns: relationship and summary, as in team_details()
included_columns ==
    << [name |-> "relationship", pretty_name |-> "relationship", width |-> 15],
       [name |-> "summary", pretty_name |-> "summary", width |-> 50] >>

Hyphens_single(n) == <<"-">>

\* '-' * n
Hyphens(n) == [k \in 1..n |-> "-"]

\* the value _build_issue_row shows in one column
ColumnValue(jira_issue, dependency, column) ==
    IF dependency # NoDependency /\ column.pretty_name = "relationship"
    THEN pretty_type(dependency)
    ELSE retrieve_field_value(jira_issue, column.name)

\* the row is dropped by a column filter.  filters is keyed by the Column
\* objects of included_columns (named by column name here), so the test
\* `column.name in filters` of a str against Column keys never succeeds.
FilteredOut(jira_issue, dependency, filters) ==
    \E c \in 1..Len(included_columns) :
        LET column == included_columns[c]
            val == ColumnValue(jira_issue, dependency, column)
        IN  /\ column.name \in DOMAIN filters
            /\ val # PyNone
            /\ ~IsSubstr(filters[column.name], val)

\* _build_issue_row: emitted is FALSE for the empty string.  The index and
\* key are the text of the first cell without its padding.
_build_issue_row(jira_issue, dependency, filters, _current_index, _current_depth) ==
    IF FilteredOut(jira_issue, dependency, filters)
    THEN [emitted |-> FALSE, index |-> 0, key |-> << >>, cells |-> << >>]
    ELSE [emitted |-> TRUE,
          index |-> _current_index,
          key |-> Truncate(IF dependency = NoDependency
                           THEN jira_issue.issue_key
                           ELSE Hyphens(_current_depth) \o heap[dependency.target].issue_key,
                           20),
          cells |-> [c \in 1..Len(included_columns) |->
                        IF ColumnValue(jira_issue, dependency, included_columns[c]) = PyNone
                        THEN << >>
                        ELSE Truncate(Str(ColumnValue(jira_issue, dependency,
                                                      included_columns[c])),
                                      included_columns[c].width)]]

\* self._current_index after _build_issue_row: a row that was built took one
IndexAfter_always(row, _current_index) == _current_index + 1

IndexAfter(row, _current_index) ==
    IF row.emitted THEN _current_index + 1 ELSE _current_index

\* the dependency pairs _build_issue_row reports to JiraDependency.unknown_dependencies
UnknownOf(dependency) ==
    IF dependency # NoDependency /\ pretty_type(dependency) = PyNone
    THEN {pretty_type_key(dependency)} ELSE {}

\* The test that opens the expansion of dependencies (display_filter.py:200)
ExpandDependencies_always(force_show_dependencies) == TRUE

ExpandDependencies(force_show_dependencies) ==
    /\ ~display_filter.suppress_dependencies
    /\ (force_show_dependencies \/ utils_flags.show_dependencies)

\* The tests that pass over one dependency in the loop (display_filter.py:203-207)
SkipDependency_no_seen_check(target, _seen_keys) ==
    is_closed(target) /\ utils_flags.show_only_open_dependencies /\ display_filter.open_only

SkipDependency(target, _seen_keys) ==
    \/ target.issue_key \in _seen_keys
    \/ is_closed(target) /\ utils_flags.show_only_open_dependencies /\ display_filter.open_only

\* The terminal condition of the recursion (display_filter.py:188)
DepthExceeded_off_by_one(_current_depth) == _current_depth > display_filter._max_depth + 1

DepthExceeded(_current_depth) == _current_depth > display_filter._max_depth

\* _format_jira_issue and its loop over issue.dependencies.  st carries what
\* the calls share: _current_index, _current_depth, _seen_keys, unknown,
\* displayed_issues and the rows of result.  hops counts the enclosing calls
\* and top is the position of the top-level issue; with id and dependency
\* they only label the rows.
RECURSIVE _format_jira_issue(_, _, _, _, _, _, _)
RECURSIVE DependencyLoop(_, _, _, _, _, _)

_format_jira_issue(id, filters, dependency, force_show_dependencies, hops, top, st) ==
    LET issue == heap[id] IN
    IF display_filter.open_only /\ is_closed(issue) THEN st
    ELSE IF DepthExceeded(st._current_depth) THEN st
    ELSE
      LET row == _build_issue_row(issue, dependency, filters,
                                  st._current_index, st._current_depth)
          s1 == [st EXCEPT !._seen_keys = @ \cup {issue.issue_key},
                           !.unknown = @ \cup UnknownOf(dependency),
                           !._current_index = IndexAfter(row, @)]
      IN  IF ~row.emitted THEN s1
          ELSE
            LET s2 == [s1 EXCEPT
                         !.result = Append(@, [index |-> row.index, key |-> row.key,
                                               cells |-> row.cells, id |-> id,
                                               dependency |-> dependency,
                                               issue_key |-> issue.issue_key,
                                               hops |-> hops, top |-> top]),
                         !.displayed_issues = Append(@, id),
                         !._current_depth = @ + 1]
                s3 == IF ExpandDependencies(force_show_dependencies)
                      THEN DependencyLoop(issue.dependencies, 1, filters, hops, top, s2)
                      ELSE s2
            IN  [s3 EXCEPT !._current_depth = @ - 1]

DependencyLoop(dependencies, k, filters, hops, top, st) ==
    IF k > Len(dependencies) THEN st
    ELSE IF SkipDependency(heap[dependencies[k].target], st._seen_keys)
    THEN DependencyLoop(dependencies, k + 1, filters, hops, top, st)
    ELSE DependencyLoop(dependencies, k + 1, filters, hops, top,
                        _format_jira_issue(dependencies[k].target, filters, dependencies[k],
                                           FALSE, hops + 1, top, st))

\* the loop over the issues argument of display_and_return_sorted_issues,
\* which empties _seen_keys before each top-level issue
RECURSIVE TopLevelLoop(_, _, _, _, _)
TopLevelLoop(issues, k, filters, force_show_dependencies, st) ==
    IF k > Len(issues) THEN st
    ELSE TopLevelLoop(issues, k + 1, filters, force_show_dependencies,
                      _format_jira_issue(issues[k], filters, NoDependency,
                                         force_show_dependencies, 0, k,
                                         [st EXCEPT !._seen_keys = {}]))

\* DisplayFilter.display_and_return_sorted_issues
display_and_return_sorted_issues(issues, start_idx, filters, force_show_dependencies) ==
    /\ render_pc = "idle"
    /\ \A k \in 1..Len(issues) : issues[k] \in DOMAIN heap
    /\ LET st == TopLevelLoop(issues, 1, filters, force_show_dependencies,
                              [_current_index |-> start_idx,
                               _current_depth |-> display_filter._current_depth,
                               _seen_keys |-> display_filter._seen_keys,
                               unknown |-> unknown_dependencies,
                               displayed_issues |-> << >>,
                               result |-> << >>])
       IN  /\ display_filter' = [display_filter EXCEPT
                                   !._current_index = st._current_index,
                                   !._current_depth = st._current_depth,
                                   !._seen_keys = st._seen_keys]
           /\ unknown_dependencies' = st.unknown
           /\ result' = st.result
           /\ displayed_issues' = st.displayed_issues
    /\ render_args' = [issues |-> issues, start_idx |-> start_idx, filters |-> filters,
                       force_show_dependencies |-> force_show_dependencies]
    /\ render_pc' = "displayed"
    /\ UNCHANGED <<heap, utils_flags>>
    /\ UNCHANGED viewVars
    /\ UNCHANGED tasker
    /\ UNCHANGED lifecycleVars
    /\ UNCHANGED jenkinsVars
    /\ UNCHANGED managerVars

-----------------------------------------------------------------------------
(* The heaps and arguments SpecRender draws from *)

Objects == {1, 2, 3}

KeyP1 == <<"P", "-", "1">>
KeyP2 == <<"P", "-", "2">>
KeyP3 == <<"P", "-", "3">>

Fixed == <<"F", "i", "x", "e", "d">>

\* a cached issue as JiraIssue.__init__ leaves it, before its links are resolved
CachedIssue(issue_key, summary, resolution) ==
    [issue_key |-> issue_key,
     fields |-> [summary |-> summary, resolution |-> resolution],
     is_cached_offline |-> TRUE,
     dependencies |-> << >>]

LinkTypes == {<<"B", "l", "o", "c", "k", "e", "r">>}
Directions == {<<"i", "n", "w", "a", "r", "d">>, <<"o", "u", "t", "w", "a", "r", "d">>}

\* a link of object src to object target
PossibleLinks ==
    {l \in [src : Objects, target : Objects, type : LinkTypes, direction : Directions] :
        l.src # l.target}

\* the links in the order the dependency sets of their sources iterate
LinkLists ==
    {ls \in UNION {[1..n -> PossibleLinks] : n \in 0..MaxLinks} :
        \A a, b \in DOMAIN ls : a # b => ls[a] # ls[b]}

\* JiraDependency.__eq__ / __hash__: the triple (target key, type, direction)
DependencyTriple(objects, dependency) ==
    <<objects[dependency.target].issue_key, dependency.type, dependency.direction>>

DependenciesOf(ls, src) ==
    LET FromSrc(l) == l.src = src
        own == SelectSeq(ls, FromSrc)
    IN  [k \in 1..Len(own) |->
            [target |-> own[k].target, type |-> own[k].type, direction |-> own[k].direction]]

\* object 3 is the cached issue P-3, or a placeholder standing in for P-2
HeapBases ==
    {[o \in Objects |->
        CASE o = 1 -> CachedIssue(KeyP1, <<"a">>, IF 1 \in closed THEN Fixed ELSE PyNone)
          [] o = 2 -> CachedIssue(KeyP2, <<"a", "b">>, IF 2 \in closed THEN Fixed ELSE PyNone)
          [] o = 3 -> IF twin THEN non_cached_issue(KeyP2)
                      ELSE CachedIssue(KeyP3, <<"b">>, IF 3 \in closed THEN Fixed ELSE PyNone)]
      : closed \in SUBSET {2, 3}, twin \in BOOLEAN}

\* a dependency set holds no two equal dependencies, and a placeholder has none
WellFormedHeap(objects) ==
    \A o \in DOMAIN objects :
        /\ \A a, b \in DOMAIN objects[o].dependencies :
              a # b => DependencyTriple(objects, objects[o].dependencies[a])
                         # DependencyTriple(objects, objects[o].dependencies[b])
        /\ ~objects[o].is_cached_offline => objects[o].dependencies = << >>

IssueArgs == {<<1>>, <<1, 2>>}
StartIdxArgs == {1, 2}
FilterArgs == {<< >>, [c \in {"summary"} |-> <<"a">>]}

ViewIdle ==
    /\ cached_jira_projects = << >>
    /\ jira_filters = << >>
    /\ view_pc = "edit"
    /\ string_matches = << >>
    /\ matching_issues = {}
    /\ filtered_issues = [filter |-> 0, keys |-> {}]

InitRender ==
    /\ tasker = TaskerIdle
    /\ LifecycleIdle
    /\ JenkinsIdle
    /\ ViewIdle
    /\ ManagerIdle
    /\ \E base \in HeapBases : \E ls \in LinkLists :
          /\ heap = [o \in Objects |->
                        [base[o] EXCEPT !.dependencies = DependenciesOf(ls, o)]]
          /\ WellFormedHeap(heap)
    /\ utils_flags = [show_dependencies |-> TRUE, show_only_open_dependencies |-> TRUE]
    /\ \E open_only \in BOOLEAN : \E ceiling \in 0..MaxCeiling :
          /\ (~open_only) => \A o \in Objects : is_open(heap[o])
          /\ display_filter = [DisplayFilterDefault EXCEPT !.open_only = open_only,
                                                           !._max_depth = ceiling]
    /\ unknown_dependencies = {}
    /\ render_pc = "idle"
    /\ render_args = [issues |-> << >>, start_idx |-> 1, filters |-> << >>,
                      force_show_dependencies |-> FALSE]
    /\ result = << >>
    /\ displayed_issues = << >>

NextRender ==
    \E issues \in IssueArgs : \E start_idx \in StartIdxArgs : \E filters \in FilterArgs :
        display_and_return_sorted_issues(issues, start_idx, filters, FALSE)

SpecRender == InitRender /\ [][NextRender]_vars

-----------------------------------------------------------------------------
(* JiraManager: connections, dependency resolution, persistence *)

MaxPasses == 2      \* runs of _resolve_issue_dependencies
MaxHeap == 3        \* JiraIssue objects in memory under SpecResolve

\* the value set() that resolve_dependencies stores under 'issuelinks'
PySet == <<"<set()>">>

\* len(v) for a string or set()
PyLen(v) == IF v = PySet THEN 0 ELSE Len(v)

\* Python s.split(c)
RECURSIVE Split(_, _)
Split(s, c) ==
    IF FirstIndex(s, c) = 0 THEN <<s>>
    ELSE <<SubSeq(s, 1, FirstIndex(s, c) - 1)>>
            \o Split(SubSeq(s, FirstIndex(s, c) + 1, Len(s)), c)

\* d[k] = v on a dict
SetItem(d, k, v) == [x \in DOMAIN d \cup {k} |-> IF x = k THEN v ELSE d[x]]

\* the names hasattr finds on a JiraIssue: the attributes __init__ sets and
\* the properties of the class.  The fields of the issue are items of the
\* dict, not attributes.
JiraIssueAttributes ==
    {"jira_connection_name", "issue_key", "dependencies", "version", "is_cached_offline",
     "is_open", "is_closed", "project_name", "resolved", "assignee", "labels", "issuetype",
     "priority", "mid_low_prio", "status", "resolution", "summary", "is_feature", "is_test",
     "is_task", "not_test", "updated", "component_list"}

hasattr_dict_item(jira_issue, name) == name \in DOMAIN jira_issue.fields

hasattr(jira_issue, name) == name \in JiraIssueAttributes

\* JiraDependency.validate_input_data: error stands for the AssertionError
validate_input_data(raw_data) ==
    IF FirstIndex(raw_data, ":") = 0 THEN [error |-> TRUE, fields |-> << >>]
    ELSE IF Len(Split(raw_data, ":")) # 3 THEN [error |-> TRUE, fields |-> << >>]
    ELSE [error |-> FALSE, fields |-> Split(raw_data, ":")]

\* d[project.project_name] = project on an insertion-ordered dict of projects
PutProject(d, project) ==
    IF \E k \in DOMAIN d : d[k].project_name = project.project_name
    THEN [k \in DOMAIN d |->
            IF d[k].project_name = project.project_name THEN project ELSE d[k]]
    ELSE Append(d, project)

RECURSIVE PutProjects(_, _, _)
PutProjects(d, projects, k) ==
    IF k > Len(projects) THEN d
    ELSE PutProjects(PutProject(d, projects[k]), projects, k + 1)

\* JiraManager.get_all_cached_jira_projects: a project of a later connection
\* replaces one of the same name
RECURSIVE get_all_cached_jira_projects_from(_, _, _)
get_all_cached_jira_projects_from(connections, c, d) ==
    IF c > Len(connections) THEN d
    ELSE get_all_cached_jira_projects_from(
            connections, c + 1, PutProjects(d, connections[c]._cached_jira_projects, 1))

get_all_cached_jira_projects(connections) ==
    get_all_cached_jira_projects_from(connections, 1, << >>)

\* JiraProject.get_issue: the object id, or 0 for None
get_issue(jira_project, objects, issue_key) ==
    IF \E k \in DOMAIN jira_project.jira_issues :
            objects[jira_project.jira_issues[k]].issue_key = issue_key
    THEN jira_project.jira_issues[
            CHOOSE k \in DOMAIN jira_project.jira_issues :
                objects[jira_project.jira_issues[k]].issue_key = issue_key]
    ELSE 0

\* JiraManager.get_jira_issue: the object id, or 0 for None
get_jira_issue(connections, objects, jira_issue_key) ==
    LET jira_projects == get_all_cached_jira_projects(connections)
        name == SplitHead(jira_issue_key, "-")
    IN  IF \A k \in DOMAIN jira_projects : jira_projects[k].project_name # name
        THEN 0
        ELSE get_issue(jira_projects[CHOOSE k \in DOMAIN jira_projects :
                                        jira_projects[k].project_name = name],
                       objects, jira_issue_key)

\* JiraDependency.__init__ followed by self.dependencies.add(dependency).
\* st = [heap, counts, error].  The placeholder of a dependency that the set
\* already holds is garbage and gets no object id.
AddDependency(connections, id, fields, st) ==
    LET target == get_jira_issue(connections, st.heap, fields[1])
        project == SplitHead(fields[1], "-")
        counts == IF target # 0 THEN st.counts
                  ELSE IF project \notin DOMAIN st.counts THEN SetItem(st.counts, project, 1)
                  ELSE SetItem(st.counts, project, st.counts[project] + 1)
        held == \E k \in DOMAIN st.heap[id].dependencies :
                    DependencyTriple(st.heap, st.heap[id].dependencies[k])
                        = <<fields[1], fields[2], fields[3]>>
        new_id == IF target # 0 THEN target ELSE Len(st.heap) + 1
        objects == IF target # 0 THEN st.heap
                   ELSE Append(st.heap, non_cached_issue(fields[1]))
    IN  IF held THEN [st EXCEPT !.counts = counts]
        ELSE [st EXCEPT !.counts = counts,
                        !.heap = [objects EXCEPT ![id].dependencies =
                                    Append(@, [target |-> new_id, type |-> fields[2],
                                               direction |-> fields[3]])]]

\* the loop over dep_array in JiraIssue.resolve_dependencies
RECURSIVE TokenLoop(_, _, _, _, _)
TokenLoop(connections, id, dep_array, k, st) ==
    IF k > Len(dep_array) THEN st
    ELSE IF dep_array[k] = << >> \/ dep_array[k] = <<"[", "]">>
    THEN TokenLoop(connections, id, dep_array, k + 1, st)
    ELSE IF validate_input_data(dep_array[k]).error
    THEN TokenLoop(connections, id, dep_array, k + 1, st)
    ELSE TokenLoop(connections, id, dep_array, k + 1,
                   AddDependency(connections, id, validate_input_data(dep_array[k]).fields, st))

\* JiraIssue.resolve_dependencies.  error stands for the KeyError of
\* self['issuelinks'] on an issue without that item.
resolve_dependencies_as_list(connections, id, st) ==
    [st EXCEPT !.heap[id].dependencies =
        Append(@, [target |-> id, type |-> <<"B", "l", "o", "c", "k", "e", "r">>,
                   direction |-> <<"i", "n", "w", "a", "r", "d">>])]

resolve_dependencies(connections, id, st) ==
    LET jira_issue == st.heap[id] IN
    IF ~hasattr(jira_issue, "issuelinks")
    THEN [st EXCEPT !.heap[id].fields = SetItem(@, "issuelinks", PySet)]
    ELSE IF "issuelinks" \notin DOMAIN jira_issue.fields
    THEN [st EXCEPT !.error = TRUE]
    ELSE IF PyLen(jira_issue.fields["issuelinks"]) # 0
    THEN TokenLoop(connections, id, Split(jira_issue.fields["issuelinks"], ","), 1, st)
    ELSE st

\* JiraProject.resolve_dependencies
RECURSIVE IssueLoop(_, _, _, _)
IssueLoop(connections, jira_issues, k, st) ==
    IF k > Len(jira_issues) \/ st.error THEN st
    ELSE IssueLoop(connections, jira_issues, k + 1,
                   resolve_dependencies(connections, jira_issues[k], st))

\* the loop over the projects in JiraManager._resolve_issue_dependencies
RECURSIVE ProjectLoop(_, _, _, _)
ProjectLoop(connections, jira_projects, k, st) ==
    IF k > Len(jira_projects) \/ st.error THEN st
    ELSE ProjectLoop(connections, jira_projects, k + 1,
                     IssueLoop(connections, jira_projects[k].jira_issues, 1, st))

\* the (target key, type, direction) triples of every object, in set order
TriplesOf(objects) ==
    [o \in DOMAIN objects |->
        [k \in DOMAIN objects[o].dependencies |->
            DependencyTriple(objects, objects[o].dependencies[k])]]

\* the body of JiraManager._resolve_issue_dependencies up to the report of
\* missing projects
ResolvePass(connections, objects) ==
    ProjectLoop(connections, get_all_cached_jira_projects(connections), 1,
                [heap |-> objects, counts |-> << >>, error |-> FALSE])

\* the objects a pass over the projects of get_all_cached_jira_projects visits
VisitedIds(connections) ==
    UNION {Range(get_all_cached_jira_projects(connections)[k].jira_issues) :
             k \in DOMAIN get_all_cached_jira_projects(connections)}

\* JiraManager._resolve_issue_dependencies
_resolve_issue_dependencies ==
    /\ passes < MaxPasses
    /\ LET st == ResolvePass(jira_connections, heap)
       IN  /\ heap' = st.heap
           /\ missing_project_counts' = st.counts
           /\ first_pass' = IF passes = 0 THEN TriplesOf(st.heap) ELSE first_pass
           /\ last_call' = [op |-> "resolve",
                            outcome |-> IF st.error THEN "raised" ELSE "returned"]
           /\ resolved' = IF st.error THEN resolved ELSE VisitedIds(jira_connections)
    /\ passes' = passes + 1
    /\ UNCHANGED <<jira_connections, persisted, loaded_links>>
    /\ UNCHANGED <<utils_flags, display_filter, render_pc, render_args, result,
                   displayed_issues, unknown_dependencies>>
    /\ UNCHANGED viewVars
    /\ UNCHANGED tasker
    /\ UNCHANGED <<manager_pc, project_files>>
    /\ UNCHANGED jenkinsVars

\* the objects pickle.dump(self) writes along with a JiraIssue: the targets
\* of its dependencies, and theirs
RECURSIVE PickledWith(_, _, _)
PickledWith(objects, ids, n) ==
    IF n = 0 THEN ids
    ELSE PickledWith(objects,
                     ids \cup UNION {{objects[o].dependencies[k].target :
                                        k \in DOMAIN objects[o].dependencies} : o \in ids},
                     n - 1)

\* JiraIssue.serialize: what one call appends to the file
serialize_placeholders_too(objects, id) ==
    << [id |-> id, object |-> objects[id],
        nested |-> PickledWith(objects, {id}, Len(objects)) \ {id}] >>

serialize(objects, id) ==
    IF ~objects[id].is_cached_offline THEN << >>
    ELSE << [id |-> id, object |-> objects[id],
             nested |-> PickledWith(objects, {id}, Len(objects)) \ {id}] >>

\* JiraUtils.save_argus_data
RECURSIVE save_argus_data(_, _, _)
save_argus_data(objects, items, k) ==
    IF k > Len(items) THEN << >>
    ELSE serialize(objects, items[k]) \o save_argus_data(objects, items, k + 1)

\* the characters of a timestamp, in the order of their code points
OrdChars == <<" ", "+", "-", ".", "/", "0", "1", "2", "3", "4", "5", "6", "7", "8", "9", ":", "T">>

Ord(ch) == CHOOSE i \in DOMAIN OrdChars : OrdChars[i] = ch

\* Python a > b on two strings
StrGreater(a, b) ==
    \E i \in 1..Len(a) :
        /\ \A j \in 1..(i - 1) : j <= Len(b) /\ a[j] = b[j]
        /\ \/ i > Len(b)
           \/ Ord(a[i]) > Ord(b[i])

\* Python s.replace(c, d) for single characters
Replace(s, c, d) == [i \in DOMAIN s |-> IF s[i] = c THEN d ELSE s[i]]

\* JiraProject.clean_ts
clean_ts(ts) ==
    LET sa == Split(ts, ":")
    IN  Replace(sa[1] \o <<":">> \o sa[2], "T", " ")

\* the default of the updated parameter of JiraProject.__init__
Epoch == <<"1", "9", "7", "0", "/", "0", "1", "/", "0", "1", " ", "0", "0", ":", "0", "0">>

\* the mark taking the timestamp of the issue merged last
NewMark_last_wins(ts, updated) == ts

\* if clean_ts > self.updated: self.updated = clean_ts
NewMark(ts, updated) == IF StrGreater(ts, updated) THEN ts ELSE updated

\* self.jira_issues[jira_issue.issue_key] = jira_issue, issues being object ids
PutIssue(jira_issues, objects, id) ==
    IF \E k \in DOMAIN jira_issues : objects[jira_issues[k]].issue_key = objects[id].issue_key
    THEN [k \in DOMAIN jira_issues |->
            IF objects[jira_issues[k]].issue_key = objects[id].issue_key
            THEN id ELSE jira_issues[k]]
    ELSE Append(jira_issues, id)

\* the loop over new_issues in JiraProject.refresh
RECURSIVE RefreshLoop(_, _, _, _)
RefreshLoop(jira_project, objects, ids, k) ==
    IF k > Len(ids) THEN jira_project
    ELSE LET jira_issue == objects[ids[k]]
             updated == IF "updated" \notin DOMAIN jira_issue.fields
                        THEN jira_project.updated
                        ELSE NewMark(clean_ts(jira_issue.fields["updated"]),
                                     jira_project.updated)
         IN  RefreshLoop([jira_project EXCEPT
                            !.updated = updated,
                            !.jira_issues = PutIssue(@, objects, ids[k])],
                         objects, ids, k + 1)

\* JiraProject.refresh on project p of connection c, new_issues being what
\* JiraUtils.get_issues_for_project returns; st = [connections, heap, persisted]
RefreshProject(st, c, p, new_issues) ==
    IF Len(new_issues) = 0 THEN st
    ELSE LET objects == st.heap \o new_issues
             ids == [k \in DOMAIN new_issues |-> Len(st.heap) + k]
             jira_project == RefreshLoop(st.connections[c]._cached_jira_projects[p],
                                         objects, ids, 1)
         IN  [connections |-> [st.connections EXCEPT
                                 ![c]._cached_jira_projects[p] = jira_project],
              heap |-> objects,
              persisted |-> SetItem(st.persisted, jira_project.project_name,
                                    save_argus_data(objects, jira_project.jira_issues, 1))]

\* the 'issuelinks' item of an issue as constructed, '[]' standing for none
LinksOf(jira_issue) ==
    IF "issuelinks" \in DOMAIN jira_issue.fields
    THEN jira_issue.fields["issuelinks"] ELSE <<"[", "]">>

\* JiraProject.refresh, as JiraConnection.update_all_cached_jira_projects
\* and TriageUpdate.process call it on each project
refresh(c, p, new_issues) ==
    /\ c \in DOMAIN jira_connections
    /\ p \in DOMAIN jira_connections[c]._cached_jira_projects
    /\ Len(heap) + Len(new_issues) <= MaxHeap
    /\ LET st == RefreshProject([connections |-> jira_connections, heap |-> heap,
                                 persisted |-> persisted], c, p, new_issues)
       IN  /\ jira_connections' = st.connections
           /\ heap' = st.heap
           /\ persisted' = st.persisted
    /\ loaded_links' = loaded_links \o [k \in DOMAIN new_issues |-> LinksOf(new_issues[k])]
    /\ last_call' = [op |-> "refresh",
                     outcome |-> IF Len(new_issues) = 0 THEN "nothing new" ELSE "merged"]
    /\ UNCHANGED <<missing_project_counts, passes, first_pass>>
    /\ UNCHANGED <<utils_flags, display_filter, render_pc, render_args, result,
                   displayed_issues, unknown_dependencies>>
    /\ UNCHANGED viewVars
    /\ UNCHANGED tasker
    /\ UNCHANGED lifecycleVars
    /\ UNCHANGED jenkinsVars

\* JiraProject.save_config of project p of connection c
save_config(c, p) ==
    /\ c \in DOMAIN jira_connections
    /\ p \in DOMAIN jira_connections[c]._cached_jira_projects
    /\ LET jira_project == jira_connections[c]._cached_jira_projects[p]
       IN  persisted' =
             IF Len(jira_project.jira_issues) > 0
             THEN SetItem(persisted, jira_project.project_name,
                          save_argus_data(heap, jira_project.jira_issues, 1))
             ELSE persisted
    /\ last_call' = [op |-> "save", outcome |-> "returned"]
    /\ UNCHANGED <<jira_connections, missing_project_counts, passes, first_pass,
                   loaded_links>>
    /\ UNCHANGED renderVars
    /\ UNCHANGED viewVars
    /\ UNCHANGED tasker
    /\ UNCHANGED lifecycleVars
    /\ UNCHANGED jenkinsVars

\* JiraProject.add_issue(JiraManager.create_non_cached_issue(issue_key)) on
\* project p of connection c
add_non_cached_issue(c, p, issue_key) ==
    /\ c \in DOMAIN jira_connections
    /\ p \in DOMAIN jira_connections[c]._cached_jira_projects
    /\ Len(heap) < MaxHeap
    /\ heap' = Append(heap, non_cached_issue(issue_key))
    /\ LET jira_issues == jira_connections[c]._cached_jira_projects[p].jira_issues
           new_id == Len(heap) + 1
       IN  jira_connections' =
             [jira_connections EXCEPT ![c]._cached_jira_projects[p].jira_issues =
                IF \E k \in DOMAIN jira_issues : heap[jira_issues[k]].issue_key = issue_key
                THEN [k \in DOMAIN jira_issues |->
                        IF heap[jira_issues[k]].issue_key = issue_key
                        THEN new_id ELSE jira_issues[k]]
                ELSE Append(jira_issues, new_id)]
    /\ last_call' = [op |-> "add_issue", outcome |-> "returned"]
    /\ UNCHANGED <<missing_project_counts, persisted, passes, first_pass, loaded_links>>
    /\ UNCHANGED <<utils_flags, display_filter, render_pc, render_args, result,
                   displayed_issues, unknown_dependencies>>
    /\ UNCHANGED viewVars
    /\ UNCHANGED tasker
    /\ UNCHANGED lifecycleVars
    /\ UNCHANGED jenkinsVars

\* link tokens: two well formed with a cached target project, one with a
\* project that is not cached, and two that are not three fields
TokenPool ==
    {<<"P", "-", "2", ":", "B", "l", "o", "c", "k", "e", "r", ":", "o", "u", "t", "w", "a", "r", "d">>,
     <<"P", "-", "2", ":", "B", "l", "o", "c", "k", "e", "r", ":", "i", "n", "w", "a", "r", "d">>,
     <<"Q", "-", "1", ":", "B", "l", "o", "c", "k", "e", "r", ":", "o", "u", "t", "w", "a", "r", "d">>,
     <<"P", "-", "2", ":", "B", "l", "o", "c", "k", "e", "r">>,
     <<"P", "-", "2">>}

\* the string JiraIssue.__init__ builds from a list of links
RawLinkStrings ==
    {s \o <<",">> : s \in TokenPool}
    \cup {s \o <<",">> \o t \o <<",">> : s \in TokenPool, t \in TokenPool}

\* a cached issue with its 'issuelinks' item: the string of its links, '[]'
\* for an empty list of links
LinkedIssue(issue_key, summary, issuelinks) ==
    [CachedIssue(issue_key, summary, PyNone) EXCEPT
        !.fields = SetItem(@, "issuelinks", issuelinks)]

InitResolve ==
    /\ tasker = TaskerIdle
    /\ LifecycleIdle
    /\ JenkinsIdle
    /\ ViewIdle
    /\ utils_flags = [show_dependencies |-> FALSE, show_only_open_dependencies |-> TRUE]
    /\ display_filter = DisplayFilterDefault
    /\ render_pc = "idle"
    /\ render_args = [issues |-> << >>, start_idx |-> 1, filters |-> << >>,
                      force_show_dependencies |-> FALSE]
    /\ result = << >>
    /\ displayed_issues = << >>
    /\ unknown_dependencies = {}
    /\ \E l1 \in RawLinkStrings \cup {<<"[", "]">>} :
       \E l2 \in RawLinkStrings \cup {<<"[", "]">>} :
       \E cached \in {<<1>>, <<1, 2>>} :
          /\ heap = [o \in DOMAIN cached |->
                        IF o = 1 THEN LinkedIssue(KeyP1, <<"a">>, l1)
                        ELSE LinkedIssue(KeyP2, <<"b">>, l2)]
          /\ loaded_links = [o \in DOMAIN cached |-> IF o = 1 THEN l1 ELSE l2]
          /\ jira_connections =
                << [connection_name |-> "c1",
                    _cached_jira_projects |->
                        << [project_name |-> <<"P">>, jira_issues |-> cached,
                            updated |-> Epoch] >>] >>
    /\ missing_project_counts = << >>
    /\ persisted = << >>
    /\ passes = 0
    /\ first_pass = << >>
    /\ last_call = [op |-> "none", outcome |-> "none"]

NextResolve ==
    \/ _resolve_issue_dependencies
    \/ \E c \in 1..1 : \E p \in 1..1 : save_config(c, p)
    \/ \E issue_key \in {KeyP2, KeyP3} : add_non_cached_issue(1, 1, issue_key)

SpecResolve == InitResolve /\ [][NextResolve]_vars

-----------------------------------------------------------------------------
(* JiraIssue.is_open / is_closed over the resolution values an issue can carry *)

\* str(v) of the resolution of a tracker payload, and values a cache file may hold
ResolutionStrings ==
    {<<>>,
     <<"N", "o", "n", "e">>,
     <<"n", "o", "n", "e">>,
     <<"U", "n", "r", "e", "s", "o", "l", "v", "e", "d">>,
     <<"u", "n", "r", "e", "s", "o", "l", "v", "e", "d">>,
     <<"F", "i", "x", "e", "d">>,
     <<"D", "o", "n", "e">>,
     <<"D", "u", "p", "l", "i", "c", "a", "t", "e">>,
     <<" ">>}

\* a JiraIssue with the given items; resolution = PyNone is None, and a
\* carries_resolution of FALSE is an issue without the item
IssueWithResolution(issue_key, summary, carries_resolution, resolution) ==
    [issue_key |-> issue_key,
     fields |-> IF carries_resolution
                THEN [summary |-> summary, resolution |-> resolution]
                ELSE [summary |-> summary],
     is_cached_offline |-> TRUE,
     dependencies |-> << >>]

UnresolvedResolution == <<"U", "n", "r", "e", "s", "o", "l", "v", "e", "d">>

PyBool(b) == IF b THEN "True" ELSE "False"

\* reading the property is_open of object id: self['resolution'] raises
\* KeyError on an issue without the item
read_is_open(id) ==
    /\ id \in DOMAIN heap
    /\ last_call.op = "none"
    /\ last_call' = [op |-> "is_open",
                     outcome |-> IF "resolution" \notin DOMAIN heap[id].fields
                                 THEN "KeyError" ELSE PyBool(is_open(heap[id]))]
    /\ UNCHANGED <<jira_connections, missing_project_counts, persisted, passes,
                   first_pass, loaded_links>>
    /\ UNCHANGED renderVars
    /\ UNCHANGED viewVars
    /\ UNCHANGED tasker
    /\ UNCHANGED lifecycleVars
    /\ UNCHANGED jenkinsVars

\* reading the property is_closed of object id
read_is_closed(id) ==
    /\ id \in DOMAIN heap
    /\ last_call.op = "none"
    /\ last_call' = [op |-> "is_closed",
                     outcome |-> IF "resolution" \notin DOMAIN heap[id].fields
                                 THEN "KeyError" ELSE PyBool(is_closed(heap[id]))]
    /\ UNCHANGED <<jira_connections, missing_project_counts, persisted, passes,
                   first_pass, loaded_links>>
    /\ UNCHANGED renderVars
    /\ UNCHANGED viewVars
    /\ UNCHANGED tasker
    /\ UNCHANGED lifecycleVars
    /\ UNCHANGED jenkinsVars

InitOpen ==
    /\ tasker = TaskerIdle
    /\ LifecycleIdle
    /\ JenkinsIdle
    /\ ViewIdle
    /\ ManagerIdle
    /\ utils_flags = [show_dependencies |-> FALSE, show_only_open_dependencies |-> TRUE]
    /\ display_filter = DisplayFilterDefault
    /\ render_pc = "idle"
    /\ render_args = [issues |-> << >>, start_idx |-> 1, filters |-> << >>,
                      force_show_dependencies |-> FALSE]
    /\ result = << >>
    /\ displayed_issues = << >>
    /\ unknown_dependencies = {}
    /\ \E issue_key \in {KeyP1, KeyP2, KeyP3} : \E summary \in FieldValues :
          \/ \E resolution \in ResolutionStrings \cup {PyNone} :
                heap = << IssueWithResolution(issue_key, summary, TRUE, resolution) >>
          \/ heap = << IssueWithResolution(issue_key, summary, FALSE, PyNone) >>
          \/ heap = << non_cached_issue(issue_key) >>

NextOpen ==
    \/ \E id \in {1} : read_is_open(id)
    \/ \E id \in {1} : read_is_closed(id)

SpecOpen == InitOpen /\ [][NextOpen]_vars

-----------------------------------------------------------------------------
(* JiraConnection / JiraManager: adding projects to connections *)

\* JiraManager.is_project_name_used
is_project_name_used(connections, name) ==
    \E k \in DOMAIN get_all_cached_jira_projects(connections) :
        get_all_cached_jira_projects(connections)[k].project_name = name

\* the names JiraConnection.pick_project(True) offers: those not cached on
\* this connection
PickableProjects(connection) ==
    {name \in ProjectNames :
        \A k \in DOMAIN connection._cached_jira_projects :
            connection._cached_jira_projects[k].project_name # name}

\* the issues a first refresh of the project brings: none, or <name>-1
RefreshedIssues(name) ==
    {<< >>, << LinkedIssue(name \o <<"-", "1">>, <<"a">>, <<"[", "]">>) >>}

\* the position of the project called name in an insertion-ordered dict
ProjectIndex(d, name) == CHOOSE k \in DOMAIN d : d[k].project_name = name

\* JiraConnection.cache_new_jira_project past the name check:
\* JiraProject(self, name, url), refresh, save_config and the assignment to
\* _cached_jira_projects; st = [connections, heap, persisted]
CacheNewProject(st, c, name, new_issues) ==
    LET linked == [st.connections EXCEPT ![c]._cached_jira_projects =
                      PutProject(@, [project_name |-> name, jira_issues |-> << >>,
                                     updated |-> Epoch])]
        p == ProjectIndex(linked[c]._cached_jira_projects, name)
        refreshed == RefreshProject([st EXCEPT !.connections = linked], c, p, new_issues)
        jira_project == refreshed.connections[c]._cached_jira_projects[p]
    IN  [refreshed EXCEPT
            !.persisted = IF Len(jira_project.jira_issues) > 0
                          THEN SetItem(@, name,
                                       save_argus_data(refreshed.heap,
                                                       jira_project.jira_issues, 1))
                          ELSE @,
            !.connections[c]._cached_jira_projects = PutProject(@, jira_project)]

\* JiraConnection.cache_new_jira_project on connection c, name being
\* the pick and new_issues what JiraProject.refresh gets from the tracker
cache_new_jira_project(c, name, new_issues) ==
    /\ c \in DOMAIN jira_connections
    /\ name \in PickableProjects(jira_connections[c])
    /\ Len(heap) + Len(new_issues) <= MaxHeap
    /\ IF is_project_name_used(jira_connections, name)
       THEN /\ last_call' = [op |-> "cache_new_jira_project", outcome |-> "rejected"]
            /\ UNCHANGED <<jira_connections, heap, persisted, loaded_links>>
       ELSE /\ LET st == CacheNewProject([connections |-> jira_connections, heap |-> heap,
                                          persisted |-> persisted], c, name, new_issues)
               IN  /\ jira_connections' = st.connections
                   /\ heap' = st.heap
                   /\ persisted' = st.persisted
            /\ loaded_links' = loaded_links \o [k \in DOMAIN new_issues |->
                                                  LinksOf(new_issues[k])]
            /\ last_call' = [op |-> "cache_new_jira_project", outcome |-> "cached"]
    /\ UNCHANGED <<missing_project_counts, passes, first_pass>>
    /\ UNCHANGED <<utils_flags, display_filter, render_pc, render_args, result,
                   displayed_issues, unknown_dependencies>>
    /\ UNCHANGED viewVars
    /\ UNCHANGED tasker
    /\ UNCHANGED lifecycleVars
    /\ UNCHANGED jenkinsVars

\* JiraProject(jira_connection, name, url): the constructor links the
\* new project through JiraConnection.add_and_link_jira_project, which
\* overwrites a project of that name on the same connection
add_and_link_jira_project(c, name) ==
    /\ c \in DOMAIN jira_connections
    /\ jira_connections' =
         [jira_connections EXCEPT ![c]._cached_jira_projects =
            PutProject(@, [project_name |-> name, jira_issues |-> << >>,
                           updated |-> Epoch])]
    /\ last_call' = [op |-> "add_and_link_jira_project", outcome |-> "linked"]
    /\ UNCHANGED <<missing_project_counts, persisted, passes, first_pass, loaded_links>>
    /\ UNCHANGED renderVars
    /\ UNCHANGED viewVars
    /\ UNCHANGED tasker
    /\ UNCHANGED lifecycleVars
    /\ UNCHANGED jenkinsVars

ConnectionNames == <<"c1", "c2">>

InitProjects ==
    /\ tasker = TaskerIdle
    /\ LifecycleIdle
    /\ JenkinsIdle
    /\ ViewIdle
    /\ RenderIdle
    /\ jira_connections =
          [c \in DOMAIN ConnectionNames |->
              [connection_name |-> ConnectionNames[c], _cached_jira_projects |-> << >>]]
    /\ missing_project_counts = << >>
    /\ persisted = << >>
    /\ passes = 0
    /\ first_pass = << >>
    /\ loaded_links = << >>
    /\ last_call = [op |-> "none", outcome |-> "none"]

NextProjects ==
    \/ \E c \in DOMAIN ConnectionNames : \E name \in ProjectNames :
          \E new_issues \in RefreshedIssues(name) :
             cache_new_jira_project(c, name, new_issues)
    \/ \E c \in DOMAIN ConnectionNames : \E name \in ProjectNames :
          add_and_link_jira_project(c, name)

SpecProjects == InitProjects /\ [][NextProjects]_vars

-----------------------------------------------------------------------------
(* utils.MultiTasker: a launching thread and one worker thread per job *)

MaxThreads == 2     \* largest max_threads tried
MaxJobs == 3        \* most jobs added before run

\* a thread made by add_job that has not been started
NewThread == [pc |-> "new", reg |-> 0]

\* launcher: run() reads running_count for thread k of the first loop and
\* finds it below the limit.  At the limit it sleeps pause and reads again,
\* which changes nothing.
run_check ==
    /\ tasker.launcher = "check"
    /\ tasker.running_count < tasker.max_threads
    /\ tasker' = [tasker EXCEPT !.launcher = "start"]
    /\ UNCHANGED <<viewVars, renderVars, managerVars, jenkinsVars, lifecycleVars>>

\* launcher: thread.start() and time.sleep(stagger), then the next thread or
\* the loop of joins
run_start ==
    /\ tasker.launcher = "start"
    /\ tasker' = [tasker EXCEPT
                    !.threads[tasker.k].pc = "started",
                    !.k = IF tasker.k < Len(tasker.threads) THEN @ + 1 ELSE @,
                    !.launcher = IF tasker.k < Len(tasker.threads) THEN "check" ELSE "join"]
    /\ UNCHANGED <<viewVars, renderVars, managerVars, jenkinsVars, lifecycleVars>>

\* launcher: every thread.join() has returned
run_join ==
    /\ tasker.launcher = "join"
    /\ \A i \in DOMAIN tasker.threads : tasker.threads[i].pc = "done"
    /\ tasker' = [tasker EXCEPT !.launcher = "returned"]
    /\ UNCHANGED <<viewVars, renderVars, managerVars, jenkinsVars, lifecycleVars>>

\* worker i, wrap_job: self.running_count += 1 reads the counter.  The lock
\* of `with threading.Lock()` is a new object at every entry and excludes
\* nobody.
wrap_job_load(i) ==
    /\ tasker.threads[i].pc \in {"started", "returned_target"}
    /\ tasker' = [tasker EXCEPT
                    !.threads[i].reg = tasker.running_count,
                    !.threads[i].pc = IF tasker.threads[i].pc = "started"
                                      THEN "increment" ELSE "decrement"]
    /\ UNCHANGED <<viewVars, renderVars, managerVars, jenkinsVars, lifecycleVars>>

\* worker i, wrap_job: the store of self.running_count += 1, then target(*args)
wrap_job_store_increment(i) ==
    /\ tasker.threads[i].pc = "increment"
    /\ tasker' = [tasker EXCEPT
                    !.running_count = tasker.threads[i].reg + 1,
                    !.threads[i].pc = "target"]
    /\ UNCHANGED <<viewVars, renderVars, managerVars, jenkinsVars, lifecycleVars>>

\* worker i: target(*args) returns
target_returns(i) ==
    /\ tasker.threads[i].pc = "target"
    /\ tasker' = [tasker EXCEPT !.threads[i].pc = "returned_target"]
    /\ UNCHANGED <<viewVars, renderVars, managerVars, jenkinsVars, lifecycleVars>>

\* worker i, wrap_job: the store of self.running_count -= 1; the thread ends
wrap_job_store_decrement(i) ==
    /\ tasker.threads[i].pc = "decrement"
    /\ tasker' = [tasker EXCEPT
                    !.running_count = tasker.threads[i].reg - 1,
                    !.threads[i].pc = "done"]
    /\ UNCHANGED <<viewVars, renderVars, managerVars, jenkinsVars, lifecycleVars>>

InitTasker ==
    /\ ViewIdle
    /\ LifecycleIdle
    /\ JenkinsIdle
    /\ RenderIdle
    /\ ManagerIdle
    /\ \E max_threads \in 1..MaxThreads : \E jobs \in 1..MaxJobs :
          tasker = [running_count |-> 0, max_threads |-> max_threads,
                    threads |-> [i \in 1..jobs |-> NewThread],
                    launcher |-> "check", k |-> 1]

NextTasker ==
    \/ run_check
    \/ run_start
    \/ run_join
    \/ \E i \in DOMAIN tasker.threads : wrap_job_load(i)
    \/ \E i \in DOMAIN tasker.threads : wrap_job_store_increment(i)
    \/ \E i \in DOMAIN tasker.threads : target_returns(i)
    \/ \E i \in DOMAIN tasker.threads : wrap_job_store_decrement(i)

SpecTasker == InitTasker /\ [][NextTasker]_vars

-----------------------------------------------------------------------------
(* JiraManager.__init__ and the main menu (SpecManager, SpecRefresh) *)

\* 'updated' values as the tracker sends them
TsDec31 == <<"2", "0", "1", "9", "-", "1", "2", "-", "3", "1", "T", "2", "3", ":", "5", "9", ":", "0", "0", ".", "0", "0", "0", "+", "0", "0", "0", "0">>
TsJan01a == <<"2", "0", "2", "0", "-", "0", "1", "-", "0", "1", "T", "1", "0", ":", "0", "0", ":", "0", "0", ".", "0", "0", "0", "+", "0", "0", "0", "0">>
TsJan01b == <<"2", "0", "2", "0", "-", "0", "1", "-", "0", "1", "T", "1", "0", ":", "3", "0", ":", "5", "9", ".", "0", "0", "0", "+", "0", "0", "0", "0">>
Timestamps == {TsDec31, TsJan01a, TsJan01b}

\* an issue as JiraUtils.get_issues_for_project or JiraIssue.deserialize
\* hands it over; updated = PyNone for an issue without that item
UpdatedIssue(issue_key, issuelinks, updated) ==
    IF updated = PyNone THEN LinkedIssue(issue_key, <<"a">>, issuelinks)
    ELSE [LinkedIssue(issue_key, <<"a">>, issuelinks) EXCEPT
            !.fields = SetItem(@, "updated", updated)]

\* JiraProject.from_file followed by JiraProject.__init__: the issues of the
\* data file keyed by issue_key, the mark raised to their newest timestamp;
\* without a data file the mark is the epoch
LoadedProject(file, objects, ids) ==
    RefreshLoop([project_name |-> file.project_name, jira_issues |-> << >>,
                 updated |-> IF Len(file.issues) = 0 THEN Epoch ELSE file.updated],
                objects, ids, 1)

\* one round of the loop over os.listdir(jira_project_dir) in
\* JiraManager.__init__: from_file, refresh, add_and_link_jira_project.  A
\* file from_file cannot read ends the loop (break).  new_issues = << >> is
\* also what Config.SkipUpdate comes to.  conf/custom_params.cfg is absent.
load_project_file(new_issues) ==
    /\ manager_pc = "loading"
    /\ project_files # << >>
    /\ LET file == Head(project_files) IN
       IF ~file.readable
       THEN /\ manager_pc' = "ready"
            /\ last_call' = [op |-> "from_file", outcome |-> "break"]
            /\ UNCHANGED <<jira_connections, heap, persisted, loaded_links, project_files>>
       ELSE /\ Len(heap) + Len(file.issues) + Len(new_issues) <= MaxHeap
            /\ LET objects == heap \o file.issues
                   ids == [k \in DOMAIN file.issues |-> Len(heap) + k]
                   jira_project == LoadedProject(file, objects, ids)
                   linked == [jira_connections EXCEPT ![file.c]._cached_jira_projects =
                                 PutProject(@, jira_project)]
                   saved == IF Len(jira_project.jira_issues) > 0
                            THEN SetItem(persisted, jira_project.project_name,
                                         save_argus_data(objects, jira_project.jira_issues, 1))
                            ELSE persisted
                   st == RefreshProject([connections |-> linked, heap |-> objects,
                                         persisted |-> saved], file.c,
                                        ProjectIndex(linked[file.c]._cached_jira_projects,
                                                     file.project_name),
                                        new_issues)
               IN  /\ jira_connections' = st.connections
                   /\ heap' = st.heap
                   /\ persisted' = st.persisted
                   /\ loaded_links' = loaded_links
                                        \o [k \in DOMAIN file.issues |-> LinksOf(file.issues[k])]
                                        \o [k \in DOMAIN new_issues |-> LinksOf(new_issues[k])]
            /\ project_files' = Tail(project_files)
            /\ manager_pc' = IF Tail(project_files) = << >> THEN "ready" ELSE "loading"
            /\ last_call' = [op |-> "from_file", outcome |-> "loaded"]
    /\ UNCHANGED <<missing_project_counts, passes, first_pass, resolved>>
    /\ UNCHANGED <<utils_flags, display_filter, render_pc, render_args, result,
                   displayed_issues, unknown_dependencies>>
    /\ UNCHANGED viewVars
    /\ UNCHANGED tasker
    /\ UNCHANGED jenkinsVars

\* JiraManager.cache_new_jira_project_data: cache_new_jira_project on the
\* picked connection, then _resolve_issue_dependencies
cache_new_jira_project_data(c, name, new_issues) ==
    /\ manager_pc = "ready"
    /\ passes < MaxPasses
    /\ c \in DOMAIN jira_connections
    /\ name \in PickableProjects(jira_connections[c])
    /\ Len(heap) + Len(new_issues) <= MaxHeap
    /\ LET before == [connections |-> jira_connections, heap |-> heap,
                      persisted |-> persisted]
           cached == IF is_project_name_used(jira_connections, name) THEN before
                     ELSE CacheNewProject(before, c, name, new_issues)
           st == ResolvePass(cached.connections, cached.heap)
       IN  /\ jira_connections' = cached.connections
           /\ persisted' = cached.persisted
           /\ heap' = st.heap
           /\ missing_project_counts' = st.counts
           /\ first_pass' = IF passes = 0 THEN TriplesOf(st.heap) ELSE first_pass
           /\ resolved' = IF st.error THEN resolved ELSE VisitedIds(cached.connections)
           /\ loaded_links' =
                IF is_project_name_used(jira_connections, name) THEN loaded_links
                ELSE loaded_links \o [k \in DOMAIN new_issues |-> LinksOf(new_issues[k])]
           /\ last_call' = [op |-> "cache_new_jira_project_data",
                            outcome |-> IF st.error THEN "raised" ELSE "returned"]
    /\ passes' = passes + 1
    /\ UNCHANGED <<manager_pc, project_files>>
    /\ UNCHANGED <<utils_flags, display_filter, render_pc, render_args, result,
                   displayed_issues, unknown_dependencies>>
    /\ UNCHANGED viewVars
    /\ UNCHANGED tasker
    /\ UNCHANGED jenkinsVars

\* a View or Renderer pass begins: JiraView.display_view reads the cache
\* through get_issues and hands the issues to DisplayFilter
display_view ==
    /\ manager_pc = "ready"
    /\ last_call' = [op |-> "display_view", outcome |-> "began"]
    /\ UNCHANGED <<jira_connections, missing_project_counts, persisted, passes,
                   first_pass, loaded_links>>
    /\ UNCHANGED renderVars
    /\ UNCHANGED viewVars
    /\ UNCHANGED tasker
    /\ UNCHANGED lifecycleVars
    /\ UNCHANGED jenkinsVars

\* __init__ has returned: the projects are loaded and the first pass is over
InitDone == manager_pc = "ready" /\ passes > 0

\* the link strings of the issues of SpecManager
ManagerLinks == {<<"[", "]">>, <<"P", "-", "2", ":", "B", "l", "o", "c", "k", "e", "r", ":", "o", "u", "t", "w", "a", "r", "d", ",">>, <<"Q", "-", "1", ":", "B", "l", "o", "c", "k", "e", "r", ":", "o", "u", "t", "w", "a", "r", "d", ",">>}

\* a project file of conf/jira/projects with its data file
ProjectFile(name, issues, readable) ==
    [c |-> 1, project_name |-> name, issues |-> issues, readable |-> readable,
     updated |-> IF issues = << >> THEN Epoch ELSE clean_ts(TsJan01a)]

\* what a refresh of project name can bring while the manager runs
ManagerBatches(name) ==
    {<< >>}
    \cup {<<UpdatedIssue(name \o <<"-", "1">>, l, TsJan01b)>> : l \in ManagerLinks}
    \cup {<<UpdatedIssue(name \o <<"-", "2">>, <<"[", "]">>, TsJan01b)>>}

InitManager ==
    /\ tasker = TaskerIdle
    /\ JenkinsIdle
    /\ ViewIdle
    /\ RenderIdle
    /\ jira_connections = << [connection_name |-> "c1", _cached_jira_projects |-> << >>] >>
    /\ missing_project_counts = << >>
    /\ persisted = << >>
    /\ passes = 0
    /\ first_pass = << >>
    /\ loaded_links = << >>
    /\ last_call = [op |-> "none", outcome |-> "none"]
    /\ manager_pc = "loading"
    /\ resolved = {}
    /\ \E l \in ManagerLinks :
          project_files \in
            {<<ProjectFile(<<"P">>, <<UpdatedIssue(KeyP1, l, TsJan01a)>>, TRUE)>>,
             <<ProjectFile(<<"P">>, <<UpdatedIssue(KeyP1, l, TsJan01a)>>, TRUE),
               ProjectFile(<<"Q">>, << >>, TRUE)>>,
             <<ProjectFile(<<"P">>, <<UpdatedIssue(KeyP1, l, TsJan01a)>>, TRUE),
               ProjectFile(<<"Q">>, << >>, FALSE)>>}

NextManager ==
    \/ \E new_issues \in ManagerBatches(<<"P">>) : load_project_file(new_issues)
    \/ manager_pc = "ready" /\ passes = 0 /\ _resolve_issue_dependencies
    \/ /\ InitDone
       /\ \E c \in DOMAIN jira_connections : \E name \in ProjectNames :
             \E new_issues \in ManagerBatches(name) :
                cache_new_jira_project_data(c, name, new_issues)
    \/ /\ InitDone
       /\ \E c \in DOMAIN jira_connections :
             \E p \in DOMAIN jira_connections[c]._cached_jira_projects :
                \E new_issues \in ManagerBatches(
                                     jira_connections[c]._cached_jira_projects[p].project_name) :
                   refresh(c, p, new_issues)
    \/ InitDone /\ display_view

SpecManager == InitManager /\ [][NextManager]_vars

-----------------------------------------------------------------------------
(* JiraProject.refresh and the high-water mark (SpecRefresh) *)

\* what the tracker can answer to one query of project P: up to two issues,
\* with or without an 'updated' item
RefreshBatches ==
    LET issues == {UpdatedIssue(k, <<"[", "]">>, ts) :
                      k \in {KeyP1, KeyP2}, ts \in Timestamps \cup {PyNone}}
    IN  {<< >>} \cup {<<i>> : i \in issues} \cup {<<i, j>> : i \in issues, j \in issues}

\* project P as from_file leaves it: not cached yet, or P-1 cached and the
\* mark at its timestamp
InitRefresh ==
    /\ tasker = TaskerIdle
    /\ JenkinsIdle
    /\ ViewIdle
    /\ utils_flags = [show_dependencies |-> FALSE, show_only_open_dependencies |-> TRUE]
    /\ display_filter = DisplayFilterDefault
    /\ render_pc = "idle"
    /\ render_args = [issues |-> << >>, start_idx |-> 1, filters |-> << >>,
                      force_show_dependencies |-> FALSE]
    /\ result = << >>
    /\ displayed_issues = << >>
    /\ unknown_dependencies = {}
    /\ \E ts \in Timestamps \cup {PyNone} :
          \/ /\ heap = << >>
             /\ loaded_links = << >>
             /\ ts = PyNone
             /\ jira_connections =
                  << [connection_name |-> "c1",
                      _cached_jira_projects |->
                         << [project_name |-> <<"P">>, jira_issues |-> << >>,
                             updated |-> Epoch] >>] >>
          \/ /\ ts # PyNone
             /\ heap = << UpdatedIssue(KeyP1, <<"[", "]">>, ts) >>
             /\ loaded_links = << <<"[", "]">> >>
             /\ jira_connections =
                  << [connection_name |-> "c1",
                      _cached_jira_projects |->
                         << [project_name |-> <<"P">>, jira_issues |-> <<1>>,
                             updated |-> clean_ts(ts)] >>] >>
    /\ missing_project_counts = << >>
    /\ persisted = << >>
    /\ passes = 0
    /\ first_pass = << >>
    /\ last_call = [op |-> "none", outcome |-> "none"]
    /\ LifecycleIdle

NextRefresh == \E new_issues \in RefreshBatches : refresh(1, 1, new_issues)

SpecRefresh == InitRefresh /\ [][NextRefresh]_vars

-----------------------------------------------------------------------------
(* The flags of dependency expansion (SpecFlags) *)

\* the link lists of SpecFlags: every link outward
OutwardLinkLists ==
    {ls \in LinkLists : \A k \in DOMAIN ls : ls[k].direction = <<"o", "u", "t", "w", "a", "r", "d">>}

\* any heap of SpecRender's universe with outward links, any setting of
\* utils.show_dependencies, utils.show_only_open_dependencies,
\* DisplayFilter.open_only and suppress_dependencies, and any ceiling
InitFlags ==
    /\ tasker = TaskerIdle
    /\ LifecycleIdle
    /\ JenkinsIdle
    /\ ViewIdle
    /\ ManagerIdle
    /\ \E base \in HeapBases : \E ls \in OutwardLinkLists :
          /\ heap = [o \in Objects |->
                        [base[o] EXCEPT !.dependencies = DependenciesOf(ls, o)]]
          /\ WellFormedHeap(heap)
    /\ \E show_dependencies \in BOOLEAN : \E show_only_open_dependencies \in BOOLEAN :
          utils_flags = [show_dependencies |-> show_dependencies,
                         show_only_open_dependencies |-> show_only_open_dependencies]
    /\ \E open_only \in BOOLEAN : \E suppress_dependencies \in BOOLEAN :
       \E ceiling \in 0..MaxCeiling :
          display_filter = [DisplayFilterDefault EXCEPT
                              !.open_only = open_only,
                              !.suppress_dependencies = suppress_dependencies,
                              !._max_depth = ceiling]
    /\ unknown_dependencies = {}
    /\ render_pc = "idle"
    /\ render_args = [issues |-> << >>, start_idx |-> 1, filters |-> << >>,
                      force_show_dependencies |-> FALSE]
    /\ result = << >>
    /\ displayed_issues = << >>

\* a report over issue 1 without column filters, the dependencies forced
\* (JiraManager.report_fix_version) or not
NextFlags ==
    \E force_show_dependencies \in BOOLEAN :
        display_and_return_sorted_issues(<<1>>, 1, << >>, force_show_dependencies)

SpecFlags == InitFlags /\ [][NextFlags]_vars

-----------------------------------------------------------------------------
(* JenkinsJob._get_job_health (SpecHealth) *)

MaxBuilds == 10     \* most builds of a job that are checked

\* the division read as the floor division of Python 2
TrueDivAtMostHalf_floor(failed_builds, builds_checked) ==
    2 * (failed_builds \div builds_checked) <= 1

\* failed_builds / builds_checked <= 0.5 : Python 3 true division of two ints
\* compared with the float 0.5; exact for counts far below 2^52
TrueDivAtMostHalf(failed_builds, builds_checked) ==
    2 * failed_builds <= builds_checked

\* JenkinsJob._get_job_health
_get_job_health(failed_builds, builds_checked) ==
    IF builds_checked = 0 THEN "N/A"
    ELSE IF failed_builds = 0 THEN "GOOD"
    ELSE IF TrueDivAtMostHalf(failed_builds, builds_checked) THEN "FAIR"
    ELSE "BAD"

\* self.health = self._get_job_health(self.recent_failed_builds, self.recent_builds_checked)
get_job_health ==
    /\ jenkins_job.health = "not computed"
    /\ jenkins_job' = [jenkins_job EXCEPT
                         !.health = _get_job_health(jenkins_job.failed_builds,
                                                    jenkins_job.builds_checked)]
    /\ UNCHANGED <<viewVars, renderVars, managerVars, tasker, lifecycleVars>>

\* a job whose recent builds were counted by _get_build_failures: the failed
\* ones are among the checked ones
InitHealth ==
    /\ ViewIdle
    /\ RenderIdle
    /\ ManagerIdle
    /\ tasker = TaskerIdle
    /\ LifecycleIdle
    /\ \E builds_checked \in 0..MaxBuilds : \E failed_builds \in 0..builds_checked :
          jenkins_job = [failed_builds |-> failed_builds, builds_checked |-> builds_checked,
                         health |-> "not computed"]

NextHealth == get_job_health

SpecHealth == InitHealth /\ [][NextHealth]_vars

-----------------------------------------------------------------------------
(* Properties of JiraFilter and JiraView, checked under SpecView *)

ViewFilters == Range(jira_filters)

\* the issue has a value under the key the filter's field translates to
HasValue(jira_filter, jira_issue) ==
    _translate_field(jira_filter, jira_issue) \in DOMAIN jira_issue.fields

ValueOf(jira_filter, jira_issue) ==
    jira_issue.fields[_translate_field(jira_filter, jira_issue)]

\* some / every string of the list is a substring of the issue's value
SomeOccurs(jira_filter, jira_issue, list) ==
    /\ HasValue(jira_filter, jira_issue)
    /\ \E k \in 1..Len(list) : IsSubstr(list[k], ValueOf(jira_filter, jira_issue))

AllOccur(jira_filter, jira_issue, list) ==
    /\ HasValue(jira_filter, jira_issue)
    /\ \A k \in 1..Len(list) : IsSubstr(list[k], ValueOf(jira_filter, jira_issue))

IncludeOnlyAnd(jira_filter) ==
    /\ jira_filter.query_type = "AND"
    /\ Len(jira_filter.includes) > 0
    /\ Len(jira_filter.excludes) = 0

\* C3: an AND filter with includes [a, b] and no excludes matches an issue
\* exactly when the issue's value under the translated field contains both a
\* and b, also for an issue that has no value under that field.
C3_AndMatchesIffBothOccur ==
    \A f \in ViewFilters : \A i \in cached_jira_issues :
        (f.query_type = "AND" /\ Len(f.includes) = 2 /\ Len(f.excludes) = 0)
            => (matches_jira_issue(f, i) <=> AllOccur(f, i, f.includes))

\* C4: in OR mode the include test and the exclude test each succeed exactly
\* when at least one string of the respective list is a substring of the
\* issue's translated field value.
C4_OrNeedsOneHit ==
    \A f \in ViewFilters : \A i \in cached_jira_issues :
        f.query_type = "OR" =>
            /\ includes_jira_issue(f, i) <=> SomeOccurs(f, i, f.includes)
            /\ excludes_jira_issue(f, i) <=> SomeOccurs(f, i, f.excludes)
            /\ (~SomeOccurs(f, i, f.includes)) => ~matches_jira_issue(f, i)

\* an OR filter with excludes [a, b], a # b, excludes an issue that holds a but not b
C4_Witness ==
    \E f \in ViewFilters : \E i \in cached_jira_issues :
        /\ f.query_type = "OR"
        /\ Len(f.excludes) = 2
        /\ f.excludes[1] # f.excludes[2]
        /\ HasValue(f, i)
        /\ IsSubstr(f.excludes[1], ValueOf(f, i))
        /\ ~IsSubstr(f.excludes[2], ValueOf(f, i))
        /\ excludes_jira_issue(f, i)

\* C5: a filter with a non-empty include list neither includes nor matches an
\* issue that has no value under the translated field, in AND and in OR mode.
C5_NoValueNoMatch ==
    \A f \in ViewFilters : \A i \in cached_jira_issues :
        (Len(f.includes) > 0 /\ ~HasValue(f, i))
            => (~includes_jira_issue(f, i) /\ ~matches_jira_issue(f, i))

\* the exclude list of the filter is satisfied by the issue's value: every
\* listed string occurs in it in AND mode, at least one in OR mode
ExcludeListSatisfied(jira_filter, jira_issue) ==
    /\ Len(jira_filter.excludes) > 0
    /\ IF jira_filter.query_type = "OR"
       THEN SomeOccurs(jira_filter, jira_issue, jira_filter.excludes)
       ELSE AllOccur(jira_filter, jira_issue, jira_filter.excludes)

Neither(jira_filter, jira_issue) ==
    ~includes_jira_issue(jira_filter, jira_issue) /\ ~excludes_jira_issue(jira_filter, jira_issue)

NotDropped(jira_issue) ==
    /\ matches_any(jira_issue, string_matches)
    /\ \A f \in ViewFilters :
          includes_jira_issue(f, jira_issue)
              \/ (f.query_type = "OR" /\ ~excludes_jira_issue(f, jira_issue))

TwoAndIncludeFilters ==
    /\ view_pc = "returned"
    /\ string_matches = << >>
    /\ Len(jira_filters) = 2
    /\ \A f \in ViewFilters : IncludeOnlyAnd(f)

C11_EmptyViewReturnsNothing ==
    (view_pc = "returned" /\ jira_filters = << >>) => matching_issues = {}

C11_Witness ==
    /\ view_pc = "returned"
    /\ jira_filters = << >>
    /\ cached_jira_issues # {}
    /\ \E i \in cached_jira_issues : matches_any(i, string_matches)
    /\ Len(string_matches) > 0
    /\ matching_issues = {}

-----------------------------------------------------------------------------
(* Properties of dependency resolution and persistence, checked under SpecResolve *)

\* the objects held by some project of some connection
CachedIds ==
    UNION {UNION {Range(jira_connections[c]._cached_jira_projects[p].jira_issues) :
                    p \in DOMAIN jira_connections[c]._cached_jira_projects} :
           c \in DOMAIN jira_connections}

\* the tokens of a raw link string, and those of exactly three fields
TokensOf(issuelinks) ==
    {t \in Range(Split(issuelinks, ",")) : t # << >> /\ t # <<"[", "]">>}

WellFormed(token) == Len(Split(token, ":")) = 3

\* the dependency set of object id answers to the token target_key:type:direction
Resolved(id, token) ==
    LET fields == Split(token, ":") IN
    \E k \in DOMAIN heap[id].dependencies :
        LET dependency == heap[id].dependencies[k] IN
        /\ dependency.type = fields[2]
        /\ dependency.direction = fields[3]
        /\ heap[dependency.target].issue_key = fields[1]
        /\ IF get_jira_issue(jira_connections, heap, fields[1]) # 0
           THEN dependency.target = get_jira_issue(jira_connections, heap, fields[1])
           ELSE ~heap[dependency.target].is_cached_offline

AfterPass == last_call.op = "resolve"

\* C12: after a resolution pass every well-formed token of every cached
\* issue's raw link string has its Dependency in the issue's dependency set,
\* on the cached record of the target key or else on a placeholder for it.
C12_EveryTokenResolved ==
    AfterPass =>
        \A id \in CachedIds \cap DOMAIN loaded_links :
            \A token \in TokensOf(loaded_links[id]) :
                WellFormed(token) => Resolved(id, token)

SomeMalformed ==
    \E id \in CachedIds \cap DOMAIN loaded_links :
        \E token \in TokensOf(loaded_links[id]) : ~WellFormed(token)

\* C14: a token that is not three colon-delimited fields adds no Dependency
\* and raises nothing out of the pass, and every other token of that issue
\* and of the other issues of the batch is still resolved.
C14_MalformedTokenSkipped ==
    (AfterPass /\ SomeMalformed) =>
        /\ last_call.outcome = "returned"
        /\ \A id \in CachedIds \cap DOMAIN loaded_links :
              /\ \A token \in TokensOf(loaded_links[id]) :
                    WellFormed(token) => Resolved(id, token)
              /\ Len(heap[id].dependencies)
                    <= Cardinality({t \in TokensOf(loaded_links[id]) : WellFormed(t)})

-----------------------------------------------------------------------------
(* Properties of DisplayFilter, checked under SpecRender *)

RowKeys == [k \in 1..Len(result) |-> result[k].issue_key]

\* C1: within the dependency expansion of one top-level issue of a render
\* pass, no issue key is emitted as a row more than once, whatever the
\* dependency graph: cycles and several dependencies on one target included.
C1_NoKeyTwicePerTopLevelIssue ==
    render_pc = "displayed" =>
        \A i, j \in DOMAIN result :
            (i # j /\ result[i].top = result[j].top)
                => result[i].issue_key # result[j].issue_key

\* a pass over P-1, which depends on P-2 twice while P-2 depends on P-1; the
\* ceiling lets the traversal come back to both keys
C1_Witness ==
    /\ render_pc = "displayed"
    /\ render_args.issues = <<1>>
    /\ display_filter._max_depth = MaxCeiling
    /\ \E a, b \in DOMAIN heap[1].dependencies :
          /\ a # b
          /\ heap[heap[1].dependencies[a].target].issue_key = KeyP2
          /\ heap[heap[1].dependencies[b].target].issue_key = KeyP2
    /\ \E a \in DOMAIN heap[2].dependencies : heap[2].dependencies[a].target = 1
    /\ RowKeys = <<KeyP1, KeyP2>>

\* the chain A -> B -> C of the scenario: P-1 -> P-2 -> P-3, nothing else,
\* every issue open and no column filter
ChainABC ==
    /\ Len(heap[1].dependencies) = 1 /\ heap[1].dependencies[1].target = 2
    /\ Len(heap[2].dependencies) = 1 /\ heap[2].dependencies[1].target = 3
    /\ heap[3].issue_key = KeyP3 /\ heap[3].dependencies = << >>
    /\ \A o \in Objects : is_open(heap[o])
    /\ render_args.issues = <<1>>
    /\ render_args.filters = << >>

\* C2: with depth ceiling N no row is emitted for an issue more than N
\* dependency hops below its top-level issue, and the pass returns with the
\* depth counter back where it started; with ceiling 1 and the chain
\* A -> B -> C the rows are those of A and B and none for C.
C2_NoRowBelowCeiling ==
    render_pc = "displayed" =>
        /\ \A k \in DOMAIN result : result[k].hops <= display_filter._max_depth
        /\ display_filter._current_depth = 0
        /\ (ChainABC /\ display_filter._max_depth = 1) => RowKeys = <<KeyP1, KeyP2>>

C2_Witness ==
    /\ render_pc = "displayed"
    /\ ChainABC
    /\ display_filter._max_depth = 1
    /\ RowKeys = <<KeyP1, KeyP2>>
    /\ result[2].hops = 1

BlockedBy == <<"b", "l", "o", "c", "k", "e", "d", " ", "b", "y">>

-----------------------------------------------------------------------------
(* Properties of JiraIssue.is_open / is_closed, checked under SpecOpen *)

ResolutionRead == last_call.op \in {"is_open", "is_closed"}

\* what the property read says about "open"
SaysOpen ==
    \/ last_call.op = "is_open" /\ last_call.outcome = "True"
    \/ last_call.op = "is_closed" /\ last_call.outcome = "False"

SaysClosed ==
    \/ last_call.op = "is_open" /\ last_call.outcome = "False"
    \/ last_call.op = "is_closed" /\ last_call.outcome = "True"

ResolutionOf(jira_issue) ==
    IF "resolution" \in DOMAIN jira_issue.fields THEN jira_issue.fields["resolution"] ELSE PyNone

C18_ReturnedListIsTheRows ==
    render_pc = "displayed" =>
        /\ Len(displayed_issues) = Len(result)
        /\ \A k \in DOMAIN result :
              /\ displayed_issues[k] = result[k].id
              /\ result[k].index = render_args.start_idx + k - 1
        /\ display_filter._current_index = render_args.start_idx + Len(result)

\* a pass from index 2 whose column filter dropped a dependency of P-1 and
\* which emitted a row after that
C18_Witness ==
    /\ render_pc = "displayed"
    /\ render_args.start_idx = 2
    /\ render_args.filters # << >>
    /\ Len(heap[1].dependencies) >= 2
    /\ heap[heap[1].dependencies[1].target].issue_key = KeyP3
    /\ heap[1].dependencies[1].target \notin Range(displayed_issues)
    /\ Len(result) >= 2
    /\ result[2].index = 3
    /\ displayed_issues[2] = heap[1].dependencies[2].target

-----------------------------------------------------------------------------
(* Properties of the project caches, checked under SpecProjects *)

CachedNames(c) ==
    {jira_connections[c]._cached_jira_projects[k].project_name :
        k \in DOMAIN jira_connections[c]._cached_jira_projects}

\* C19: whatever operations added projects to connections, no project name
\* is cached under two different connections.
C19_ProjectNamesUnique ==
    \A c, d \in DOMAIN jira_connections : c # d => CachedNames(c) \cap CachedNames(d) = {}

\* the other half of C19, which the code keeps: a rejected
\* cache_new_jira_project leaves every connection's cache as it was
RejectedLeavesCaches ==
    [][last_call'.outcome = "rejected" => jira_connections' = jira_connections]_vars

-----------------------------------------------------------------------------
(* Properties of MultiTasker, checked under SpecTasker *)

\* the jobs whose target is executing
RunningJobs == {i \in DOMAIN tasker.threads : tasker.threads[i].pc = "target"}

\* C20: while run is executing at most max_threads jobs run at the same
\* time, however the launcher and the workers interleave.
C20_AtMostMaxThreadsRunning ==
    tasker.launcher # "returned" => Cardinality(RunningJobs) <= tasker.max_threads

\* C28: run starts every added job and returns only after all of them have
\* finished, and when it has returned running_count is back at 0.
C28_RunJoinsAllAndCountReturns ==
    tasker.launcher = "returned" =>
        /\ \A i \in DOMAIN tasker.threads : tasker.threads[i].pc = "done"
        /\ tasker.running_count = 0

\* the blocking join alone: run returns only after every job has finished
RunReturnsAfterAllJobs ==
    tasker.launcher = "returned" =>
        \A i \in DOMAIN tasker.threads : tasker.threads[i].pc = "done"

\* the scheduler lets every thread that can take a step take it in the end,
\* and every job returns
SpecTaskerFair ==
    /\ SpecTasker
    /\ WF_vars(run_check) /\ WF_vars(run_start) /\ WF_vars(run_join)
    /\ \A i \in 1..MaxJobs :
          /\ WF_vars(i \in DOMAIN tasker.threads /\ wrap_job_load(i))
          /\ WF_vars(i \in DOMAIN tasker.threads /\ wrap_job_store_increment(i))
          /\ WF_vars(i \in DOMAIN tasker.threads /\ target_returns(i))
          /\ WF_vars(i \in DOMAIN tasker.threads /\ wrap_job_store_decrement(i))

\* the termination half of C28: run returns in the end
RunTerminates == <>(tasker.launcher = "returned")

-----------------------------------------------------------------------------
(* A single JiraFilter against the view that holds it, checked under SpecView *)

\* keys of the cached issues the filter matches
MatchedKeys(jira_filter) ==
    {i.issue_key : i \in {j \in cached_jira_issues : matches_jira_issue(jira_filter, j)}}

\* keys of the cached issues the filter includes
IncludedKeys(jira_filter) ==
    {i.issue_key : i \in {j \in cached_jira_issues : includes_jira_issue(jira_filter, j)}}

\* get_issues() of a view with exactly one filter has returned
OneFilterViewReturned ==
    view_pc = "returned" /\ Len(jira_filters) = 1 /\ Len(string_matches) = 0

OneFilterViewReturnsIncluded ==
    OneFilterViewReturned => matching_issues = IncludedKeys(jira_filters[1])

\* get_matching_jira_issues computes the set matches_jira_issue describes
FilteredIssuesAreMatched ==
    view_pc = "filtered" =>
        filtered_issues.keys = MatchedKeys(jira_filters[filtered_issues.filter])

\* C30: with an empty include list the include test is false for every issue,
\* with an empty exclude list the exclude test is false for every issue, in
\* AND and in OR mode and with or without the field; so a filter that has
\* only excludes matches no issue.
C30_EmptyListNeverMatches ==
    \A f \in ViewFilters : \A i \in cached_jira_issues :
        /\ Len(f.includes) = 0 => ~includes_jira_issue(f, i)
        /\ Len(f.excludes) = 0 => ~excludes_jira_issue(f, i)
        /\ (Len(f.includes) = 0 /\ Len(f.excludes) > 0) => ~matches_jira_issue(f, i)

\* an AND filter with only excludes and an OR filter with only includes are
\* held against a cached issue without the field and one with it
C30_Witness ==
    /\ \E f \in ViewFilters : \E i \in cached_jira_issues :
          /\ f.query_type = "AND" /\ Len(f.includes) = 0 /\ Len(f.excludes) > 0
          /\ ~HasValue(f, i)
          /\ ~matches_jira_issue(f, i)
    /\ \E f \in ViewFilters : \E i \in cached_jira_issues :
          /\ f.query_type = "OR" /\ Len(f.excludes) = 0 /\ Len(f.includes) > 0
          /\ HasValue(f, i)
          /\ ~excludes_jira_issue(f, i)

-----------------------------------------------------------------------------
(* Properties of JenkinsJob, checked under SpecHealth *)

\* C21: for 0 <= failed_builds <= builds_checked the health is 'N/A' when no
\* build was checked, 'GOOD' when builds were checked and none failed, 'FAIR'
\* when at least one and at most half of them failed, 'BAD' when more than
\* half failed.
C21_JobHealth ==
    LET f == jenkins_job.failed_builds
        b == jenkins_job.builds_checked
        health == jenkins_job.health
    IN  health # "not computed" =>
          /\ (b = 0) => health = "N/A"
          /\ (b > 0 /\ f = 0) => health = "GOOD"
          /\ (f >= 1 /\ 2 * f <= b) => health = "FAIR"
          /\ (b > 0 /\ 2 * f > b) => health = "BAD"

\* two of three recent builds failed and the job is BAD
C21_Witness ==
    /\ jenkins_job.failed_builds = 2
    /\ jenkins_job.builds_checked = 3
    /\ jenkins_job.health = "BAD"

-----------------------------------------------------------------------------
(* Properties of the manager's life cycle, checked under SpecManager *)

\* a resolution pass has just returned
AfterManagerPass ==
    /\ last_call.op \in {"resolve", "cache_new_jira_project_data"}
    /\ last_call.outcome = "returned"

\* the object cached under key, or 0
CurrentId(key) == get_jira_issue(jira_connections, heap, key)

\* every Dependency of object id is on the record now cached under its
\* target key, and on a placeholder only if that key is not cached
DependenciesCurrent(id) ==
    \A k \in DOMAIN heap[id].dependencies :
        LET target == heap[id].dependencies[k].target IN
        /\ CurrentId(heap[target].issue_key) # 0 => target = CurrentId(heap[target].issue_key)
        /\ ~heap[target].is_cached_offline => CurrentId(heap[target].issue_key) = 0

\* the link token of object id whose target key is cached has its Dependency,
\* on the record now cached under that key
LinkFollowsCache(id, token) ==
    LET fields == Split(token, ":") IN
    CurrentId(fields[1]) # 0 =>
        \E k \in DOMAIN heap[id].dependencies :
            /\ heap[id].dependencies[k].type = fields[2]
            /\ heap[id].dependencies[k].direction = fields[3]
            /\ heap[id].dependencies[k].target = CurrentId(fields[1])

ExistingDependenciesCurrent ==
    AfterManagerPass => \A id \in CachedIds : DependenciesCurrent(id)

-----------------------------------------------------------------------------
(* The frame of a resolution pass, checked under SpecResolve *)

\* C23: a resolution pass changes nothing of an Issue Record but its
\* dependency set: the key and every field, the raw link string included, are
\* after the pass what they were before it, and the dependency set only grows.
C23_PassChangesOnlyDependencies ==
    [][(last_call'.op = "resolve" /\ passes' = passes + 1) =>
          \A o \in DOMAIN heap :
              /\ heap'[o].issue_key = heap[o].issue_key
              /\ heap'[o].fields = heap[o].fields
              /\ \A k \in DOMAIN heap[o].dependencies :
                    /\ k \in DOMAIN heap'[o].dependencies
                    /\ heap'[o].dependencies[k] = heap[o].dependencies[k]]_vars

\* C24: resolution is a barrier: no pass starts while __init__ is still
\* loading projects, and when a View or Renderer pass begins a pass has run
\* to completion over every issue then in the cache, those of a newly cached
\* project and those added or replaced by a refresh included.
C24_ResolutionIsABarrier ==
    /\ passes > 0 => manager_pc = "ready"
    /\ last_call.op = "display_view" =>
          /\ passes > 0
          /\ CachedIds \subseteq resolved

\* the first half of C24 alone
PassAfterLoading == passes > 0 => manager_pc = "ready"

-----------------------------------------------------------------------------
(* The high-water mark of a project, checked under SpecRefresh *)

\* project P of connection c1
ProjectP == jira_connections[1]._cached_jira_projects[1]

\* the issue keys cached in project P
KeysCached(jira_project, objects) ==
    {objects[jira_project.jira_issues[k]].issue_key : k \in DOMAIN jira_project.jira_issues}

\* C27: over a refresh the mark (updated) of a project does not decrease,
\* and ends at least as late as the cleaned 'updated' timestamp of every
\* issue the refresh merged; a refresh that brought no issue leaves mark and
\* cache as they were; no refresh removes a cached issue key.
C27_MarkNeverDecreases ==
    [][last_call'.op = "refresh" =>
          /\ ~StrGreater(ProjectP.updated, ProjectP'.updated)
          /\ \A o \in DOMAIN heap' \ DOMAIN heap :
                "updated" \in DOMAIN heap'[o].fields =>
                    ~StrGreater(clean_ts(heap'[o].fields["updated"]), ProjectP'.updated)
          /\ heap' = heap => (ProjectP' = ProjectP /\ persisted' = persisted)
          /\ KeysCached(ProjectP, heap) \subseteq KeysCached(ProjectP', heap')]_vars

\* a refresh merged an older and a newer issue and the mark is at the newer
\* one's minute
C27_Witness ==
    /\ last_call = [op |-> "refresh", outcome |-> "merged"]
    /\ Len(heap) >= 2
    /\ "updated" \in DOMAIN heap[Len(heap) - 1].fields
    /\ "updated" \in DOMAIN heap[Len(heap)].fields
    /\ heap[Len(heap) - 1].fields["updated"] = TsJan01b
    /\ heap[Len(heap)].fields["updated"] = TsDec31
    /\ ProjectP.updated = clean_ts(TsJan01b)

-----------------------------------------------------------------------------
(* Properties of the expansion flags, checked under SpecFlags *)

\* the loop over issue.dependencies ran for the issue of this row
LoopRan(row) ==
    /\ ~display_filter.suppress_dependencies
    /\ \/ utils_flags.show_dependencies
       \/ row.hops = 0 /\ render_args.force_show_dependencies

\* the key of the target has a row under the same top-level issue: it was
\* seen before, or it is rendered now
HasRowUnder(top, target) ==
    \E j \in DOMAIN result :
        result[j].top = top /\ result[j].issue_key = heap[target].issue_key

\* C25: during dependency expansion a closed target is passed over for being
\* closed only when utils.show_only_open_dependencies and the renderer's
\* open_only are both set; in every other setting a closed target not yet
\* seen and within the depth ceiling gets a row.
C25_ClosedSkippedOnlyUnderBothFlags ==
    render_pc = "displayed" =>
        \A k \in DOMAIN result : LoopRan(result[k]) =>
            \A d \in DOMAIN heap[result[k].id].dependencies :
                LET target == heap[result[k].id].dependencies[d].target IN
                (/\ is_closed(heap[target])
                 /\ ~(utils_flags.show_only_open_dependencies /\ display_filter.open_only)
                 /\ result[k].hops + 1 <= display_filter._max_depth)
                    => HasRowUnder(result[k].top, target)

\* C25 where the renderer's open_only is off
ClosedShownWithoutOpenOnly ==
    (render_pc = "displayed" /\ ~display_filter.open_only) =>
        \A k \in DOMAIN result : LoopRan(result[k]) =>
            \A d \in DOMAIN heap[result[k].id].dependencies :
                LET target == heap[result[k].id].dependencies[d].target IN
                (is_closed(heap[target]) /\ result[k].hops + 1 <= display_filter._max_depth)
                    => HasRowUnder(result[k].top, target)

\* C26: the decision to expand is the same at every depth: when the
\* dependencies of the top-level issue are expanded (not suppressed, and
\* utils.show_dependencies or force_show_dependencies on), those of every
\* rendered dependency target are expanded too, down to the depth ceiling.
C26_ExpansionSameAtEveryDepth ==
    (/\ render_pc = "displayed"
     /\ ~display_filter.suppress_dependencies
     /\ (utils_flags.show_dependencies \/ render_args.force_show_dependencies)) =>
        \A k \in DOMAIN result : result[k].hops >= 1 =>
            \A d \in DOMAIN heap[result[k].id].dependencies :
                LET target == heap[result[k].id].dependencies[d].target IN
                (is_open(heap[target]) /\ result[k].hops + 1 <= display_filter._max_depth)
                    => HasRowUnder(result[k].top, target)

\* C26 where utils.show_dependencies is on
ExpansionAtEveryDepthWhenShown ==
    utils_flags.show_dependencies => C26_ExpansionSameAtEveryDepth

====
